---- MODULE Spec2Model ----
(***************************************************************************)
(* Model of the cart / checkout / order-status pipeline of app/main.py.    *)
(*                                                                         *)
(* The tables the pipeline touches (products, mobile_cart, mobile_orders, *)
(* and user_addresses, the addresses customers save) are sequences of rows *)
(* in insertion order; a row is a record keyed by column name.  Every HTTP *)
(* handler is one action that                                              *)
(* reads and writes the tables exactly as the handler does and leaves the  *)
(* response it produced (handler, HTTP status, body) in `resp`.            *)
(*                                                                         *)
(* Prices are modelled as whole rupees (the code stores floats); all other *)
(* arithmetic is Python's unbounded integer arithmetic.  The added_at and  *)
(* updated_at stamps of cart lines and products, which no handler reads,   *)
(* are left out of the rows; an order keeps its created_at and updated_at. *)
(*                                                                         *)
(* Handlers are plain `def` functions, which the server runs on a pool of  *)
(* threads.  Where requests are served one at a time a handler is a single *)
(* action; where they overlap a handler is the sequence of its store calls *)
(* and `inflight` holds, for each thread, the locals of the handler it is  *)
(* in the middle of.                                                       *)
(***************************************************************************)
EXTENDS Integers, Sequences, FiniteSets, TLC

VARIABLES products, mobile_cart, mobile_orders, user_addresses, nextCartRowId, resp, inflight

vars ==
    <<products, mobile_cart, mobile_orders, user_addresses, nextCartRowId, resp, inflight>>

(***************************************************************************)
(* Bounds of the model and the small sets the requests are drawn from.     *)
(***************************************************************************)
MaxCartRows == 2
MaxOrders == 2
MaxLines == 2
MaxAddresses == 1

None == "None"

ProductIds == {"p1", "p2"}
UnknownProductId == "p9"
Phone1 == "9000000001"
GuestTokens == {"guest_0000000a"}
Weights == {"500g", "1kg"}
Stocks == {1, 3}
Quantities == {0, 1, 2, 21}
Address1 ==
    [name |-> "Asha", phone |-> Phone1, address_line |-> "12 MG Road", landmark |-> None,
     area |-> "Indiranagar", pincode |-> "560038", address_type |-> "home"]
\* The address a customer saves after ordering to Address1.
Address2 ==
    [name |-> "Asha", phone |-> Phone1, address_line |-> "7 Church Street", landmark |-> None,
     area |-> "Ashok Nagar", pincode |-> "560001", address_type |-> "home"]
Times == {"t1"}


(***************************************************************************)
(* Program constants.                                                      *)
(***************************************************************************)
MinQuantity == 1
MaxQuantity == 20
FreeDeliveryThreshold == 199
FlatDeliveryFee == 40
OrderNumberWidth == 4

valid_statuses ==
    <<"placed", "confirmed", "preparing", "out_for_delivery", "delivered", "cancelled">>

(***************************************************************************)
(* Generic helpers.                                                        *)
(***************************************************************************)
Range(s) == {s[i] : i \in DOMAIN s}

Max(a, b) == IF a >= b THEN a ELSE b

\* Python truthiness of an optional string: None and "" are falsy.
Truthy(x) == x # None /\ x # ""

\* {**record, **data}
Merge(record, data) ==
    [k \in (DOMAIN record) \cup (DOMAIN data) |->
        IF k \in DOMAIN data THEN data[k] ELSE record[k]]

\* dict.get(key): None when the key is absent.
Get(row, key) == IF key \in DOMAIN row THEN row[key] ELSE None

\* next((p for p in rows if p["id"] == id), None), as the sequence of 0 or 1 rows.
FirstById(rows, id) ==
    LET hits == SelectSeq(rows, LAMBDA row : row.id = id)
    IN  IF hits = <<>> THEN <<>> ELSE <<hits[1]>>

(***************************************************************************)
(* Database helper functions.                                              *)
(***************************************************************************)
RowMatches(row, filters) == \A k \in DOMAIN filters : Get(row, k) = filters[k]

get_table_data(table, filters) == SelectSeq(table, LAMBDA row : RowMatches(row, filters))

insert_table_data(table, row) == Append(table, row)

\* supabase .upsert(): replace the row with the same primary key, else insert.
upsert(table, row) ==
    IF \E i \in DOMAIN table : table[i].id = row.id
    THEN [i \in DOMAIN table |-> IF table[i].id = row.id THEN row ELSE table[i]]
    ELSE Append(table, row)

update_table_data_insert_missing(table, data, filters) ==
    LET existing_records == get_table_data(table, filters)
    IN  IF existing_records # <<>>
        THEN upsert(table, Merge(existing_records[1], data))
        ELSE upsert(table, Merge(filters, data))

update_table_data(table, data, filters) ==
    LET existing_records == get_table_data(table, filters)
    IN  IF existing_records # <<>>
        THEN upsert(table, Merge(existing_records[1], data))
        ELSE table

\* The truthiness of update_table_data's return value (None when no row matched).
update_table_result(table, filters) == get_table_data(table, filters) # <<>>

\* As the deletion, were the filters ignored.
delete_table_data_every_row(table, filters) == SelectSeq(table, LAMBDA row : FALSE)

delete_table_data(table, filters) ==
    SelectSeq(table, LAMBDA row : ~RowMatches(row, filters))

(***************************************************************************)
(* Request validation (pydantic models).                                   *)
(***************************************************************************)
validate_quantity(v) == ~(v < MinQuantity \/ v > MaxQuantity)

CartItem(product_id, quantity, selected_weight) ==
    [product_id |-> product_id, quantity |-> quantity, selected_weight |-> selected_weight]

OrderCheckout(user_phone, delivery_address, cart_items) ==
    [user_phone |-> user_phone, delivery_address |-> delivery_address,
     cart_items |-> cart_items, delivery_slot |-> "today_evening",
     payment_method |-> "cod", special_instructions |-> None]

(***************************************************************************)
(* Pricing, as both get_cart and place_order compute it.                   *)
(***************************************************************************)
cart_delivery_charge_strict(subtotal) ==
    IF subtotal > FreeDeliveryThreshold THEN 0 ELSE FlatDeliveryFee

\* get_cart: delivery_charge = 0 if subtotal >= 199 else 40
cart_delivery_charge(subtotal) ==
    IF subtotal >= FreeDeliveryThreshold THEN 0 ELSE FlatDeliveryFee

\* place_order: delivery_charge = 0 if subtotal >= 199 else 40
order_delivery_charge(subtotal) ==
    IF subtotal >= FreeDeliveryThreshold THEN 0 ELSE FlatDeliveryFee

free_delivery_remaining_unclamped(subtotal) == FreeDeliveryThreshold - subtotal

\* get_cart: free_delivery_remaining = max(0, 199 - subtotal)
free_delivery_remaining_of(subtotal) == Max(0, FreeDeliveryThreshold - subtotal)

total_amount_without_delivery(subtotal, delivery_charge) == subtotal

\* place_order: total_amount = subtotal + delivery_charge
total_amount_of(subtotal, delivery_charge) == subtotal + delivery_charge

(***************************************************************************)
(* f"VEG{n:04d}": the decimal digits of n, left-padded with "0" to width 4 *)
(* (never truncated), after the prefix; a sequence of characters.          *)
(***************************************************************************)
DigitChar(d) == <<"0", "1", "2", "3", "4", "5", "6", "7", "8", "9">>[d + 1]

RECURSIVE Decimal(_)
Decimal(n) == IF n < 10 THEN <<DigitChar(n)>> ELSE Append(Decimal(n \div 10), DigitChar(n % 10))

RECURSIVE ZeroPad(_, _)
ZeroPad(digits, width) ==
    IF Len(digits) >= width THEN digits ELSE ZeroPad(<<"0">> \o digits, width)

\* As the order number, were the count of existing orders used as it is.
order_number_of_count(count) == <<"V", "E", "G">> \o ZeroPad(Decimal(count), OrderNumberWidth)

order_number_of(count) == <<"V", "E", "G">> \o ZeroPad(Decimal(count + 1), OrderNumberWidth)

(***************************************************************************)
(* Initial state: a seeded catalogue, no cart lines, no orders.            *)
(***************************************************************************)
ProductRow(id, price, stock, active) ==
    [id |-> id, name |-> id, base_price |-> price, stock_quantity |-> stock,
     is_active |-> active]

\* The threads of the server's pool that serve requests side by side, and
\* what a thread that is between requests holds.
Workers == {"w1", "w2"}
Idle == [pc |-> "idle"]

NoResp == [op |-> "none", code |-> 0]

InitTables ==
    /\ mobile_cart = <<>>
    /\ mobile_orders = <<>>
    /\ nextCartRowId = 1
    /\ resp = NoResp
    /\ user_addresses = <<>>
    /\ inflight = [w \in Workers |-> Idle]

Init ==
    /\ products = <<ProductRow("p1", 50, 3, TRUE), ProductRow("p2", 199, 1, TRUE)>>
    /\ InitTables

(***************************************************************************)
(* POST /app/cart/add                                                      *)
(***************************************************************************)
\* product["stock_quantity"] < item.quantity
add_stock_short(product, quantity) == product.stock_quantity < quantity

merged_stock_unchecked(product, new_quantity) == FALSE

\* new_quantity > product["stock_quantity"]
merged_stock_short(product, new_quantity) == new_quantity > product.stock_quantity

existing_cart_items_wrong_column(cart, cart_id, item) ==
    get_table_data(cart, [cart_id |-> cart_id, product_id |-> item.product_id,
                          weight |-> item.selected_weight])

\* The lines already in the cart for the item's (cart, product, weight).
existing_cart_items(cart, cart_id, item) ==
    get_table_data(cart, [cart_id |-> cart_id, product_id |-> item.product_id,
                          selected_weight |-> item.selected_weight])

\* What the handler answers and leaves in the tables, given what it reads.
add_to_cart_outcome(cart, prods, next_id, item, user_phone, guest_token) ==
    LET found == get_table_data(prods, [id |-> item.product_id])
        product == found[1]
        cart_id == IF Truthy(user_phone) THEN user_phone ELSE guest_token
        existing_items == existing_cart_items(cart, cart_id, item)
        existing_item == existing_items[1]
        new_quantity == existing_item.quantity + item.quantity
        cart_item == [id |-> next_id, cart_id |-> cart_id,
                      product_id |-> item.product_id, quantity |-> item.quantity,
                      selected_weight |-> item.selected_weight]
        Fail(code, detail) ==
            [resp |-> [op |-> "add_to_cart", code |-> code, detail |-> detail],
             mobile_cart |-> cart, inserted |-> FALSE]
    IN  IF ~validate_quantity(item.quantity)
        THEN Fail(422, "Quantity must be between 1 and 20")
        ELSE IF found = <<>> THEN Fail(404, "Product not found")
        ELSE IF add_stock_short(product, item.quantity)
        THEN Fail(400, "Only N items available")
        ELSE IF existing_items # <<>>
             THEN IF merged_stock_short(product, new_quantity)
                  THEN Fail(400, "Not enough stock available")
                  ELSE [resp |-> [op |-> "add_to_cart", code |-> 200,
                                  message |-> "Cart updated", quantity |-> new_quantity],
                        mobile_cart |-> update_table_data(cart, [quantity |-> new_quantity],
                                                          [id |-> existing_item.id]),
                        inserted |-> FALSE]
             ELSE [resp |-> [op |-> "add_to_cart", code |-> 200,
                             message |-> "Added to cart", cart_item |-> cart_item],
                   mobile_cart |-> insert_table_data(cart, cart_item),
                   inserted |-> TRUE]

add_to_cart(item, user_phone, guest_token) ==
    LET out == add_to_cart_outcome(mobile_cart, products, nextCartRowId,
                                   item, user_phone, guest_token)
    IN  /\ out.inserted => nextCartRowId <= MaxCartRows
        /\ resp' = out.resp
        /\ mobile_cart' = out.mobile_cart
        /\ nextCartRowId' = IF out.inserted THEN nextCartRowId + 1 ELSE nextCartRowId
        /\ UNCHANGED <<products, mobile_orders, inflight, user_addresses>>

(***************************************************************************)
(* GET /app/cart                                                           *)
(***************************************************************************)
\* As the loop, were a line whose product is gone listed at price 0.
RECURSIVE get_cart_loop_listing_orphans(_, _, _, _)
get_cart_loop_listing_orphans(cart_items, prods, i, acc) ==
    IF i > Len(cart_items) THEN acc
    ELSE LET cart_item == cart_items[i]
             hit == FirstById(prods, cart_item.product_id)
             product == hit[1]
             unit_price == IF hit # <<>> THEN product.base_price ELSE 0
             item_total == unit_price * cart_item.quantity
         IN  get_cart_loop_listing_orphans(cart_items, prods, i + 1,
                [subtotal |-> acc.subtotal + item_total,
                 enriched_items |-> Append(acc.enriched_items,
                     [cart_item_id |-> cart_item.id, product_id |-> cart_item.product_id,
                      quantity |-> cart_item.quantity,
                      selected_weight |-> cart_item.selected_weight,
                      unit_price |-> unit_price, item_total |-> item_total,
                      max_quantity |-> 0])])

RECURSIVE get_cart_loop(_, _, _, _)
get_cart_loop(cart_items, prods, i, acc) ==
    IF i > Len(cart_items) THEN acc
    ELSE LET cart_item == cart_items[i]
             hit == FirstById(prods, cart_item.product_id)
             product == hit[1]
             unit_price == product.base_price
             item_total == unit_price * cart_item.quantity
         IN  IF hit # <<>>
             THEN get_cart_loop(cart_items, prods, i + 1,
                     [subtotal |-> acc.subtotal + item_total,
                      enriched_items |-> Append(acc.enriched_items,
                          [cart_item_id |-> cart_item.id, product_id |-> product.id,
                           quantity |-> cart_item.quantity,
                           selected_weight |-> cart_item.selected_weight,
                           unit_price |-> unit_price, item_total |-> item_total,
                           max_quantity |-> product.stock_quantity])])
             ELSE get_cart_loop(cart_items, prods, i + 1, acc)

get_cart_response(cart, prods, user_phone, guest_id) ==
    LET cart_id == IF Truthy(user_phone) THEN user_phone ELSE guest_id
        cart_items == get_table_data(cart, [cart_id |-> cart_id])
        priced == get_cart_loop(cart_items, prods, 1, [subtotal |-> 0, enriched_items |-> <<>>])
        subtotal == priced.subtotal
        delivery_charge == cart_delivery_charge(subtotal)
    IN  IF ~Truthy(cart_id)
        THEN [op |-> "get_cart", code |-> 200, items |-> <<>>, total |-> 0,
              message |-> "No cart ID provided"]
        ELSE IF cart_items = <<>>
        THEN [op |-> "get_cart", code |-> 200, items |-> <<>>, subtotal |-> 0,
              delivery_charge |-> 40, total |-> 40, free_delivery_remaining |-> 199,
              message |-> "Cart is empty"]
        ELSE [op |-> "get_cart", code |-> 200, items |-> priced.enriched_items,
              subtotal |-> subtotal, delivery_charge |-> delivery_charge,
              total |-> subtotal + delivery_charge,
              free_delivery_remaining |-> free_delivery_remaining_of(subtotal),
              item_count |-> Len(priced.enriched_items)]

get_cart(user_phone, guest_id) ==
    /\ resp' = get_cart_response(mobile_cart, products, user_phone, guest_id)
    /\ UNCHANGED <<products, mobile_cart, mobile_orders, nextCartRowId, inflight, user_addresses>>

(***************************************************************************)
(* PUT /app/cart/{cart_item_id}                                            *)
(***************************************************************************)
\* As the stock check, were the whole stock refused.
line_stock_short_strict(product, quantity) == quantity >= product.stock_quantity

line_stock_short(product, quantity) == quantity > product.stock_quantity

\* What the handler answers and leaves in the cart table, given what it reads.
update_cart_item_outcome(cart, prods, cart_item_id, quantity) ==
    LET cart_items == get_table_data(cart, [id |-> cart_item_id])
        cart_item == cart_items[1]
        found == get_table_data(prods, [id |-> cart_item.product_id])
        product == found[1]
        Fail(code, detail) ==
            [resp |-> [op |-> "update_cart_item", code |-> code, detail |-> detail],
             mobile_cart |-> cart]
    IN  IF quantity <= 0
        THEN [resp |-> [op |-> "update_cart_item", code |-> 200,
                        message |-> "Item removed from cart"],
              mobile_cart |-> delete_table_data(cart, [id |-> cart_item_id])]
        ELSE IF cart_items = <<>> THEN Fail(404, "Cart item not found")
        ELSE IF found = <<>> THEN Fail(404, "Product not found")
        ELSE IF line_stock_short(product, quantity) THEN Fail(400, "Only N items available")
        ELSE [resp |-> [op |-> "update_cart_item", code |-> 200,
                        message |-> "Cart updated", new_quantity |-> quantity],
              mobile_cart |-> update_table_data(cart, [quantity |-> quantity],
                                                [id |-> cart_item_id])]

update_cart_item(cart_item_id, quantity) ==
    LET out == update_cart_item_outcome(mobile_cart, products, cart_item_id, quantity)
    IN  /\ resp' = out.resp
        /\ mobile_cart' = out.mobile_cart
        /\ UNCHANGED <<products, mobile_orders, nextCartRowId, inflight, user_addresses>>

(***************************************************************************)
(* DELETE /app/cart/{cart_item_id}                                         *)
(***************************************************************************)
\* As the removal, were the line's whole product removed from every cart.
remove_cart_item_outcome_by_product(cart, cart_item_id) ==
    LET hit == get_table_data(cart, [id |-> cart_item_id])
    IN  [resp |-> [op |-> "remove_cart_item", code |-> 200,
                   message |-> "Item removed from cart"],
         mobile_cart |-> IF hit = <<>> THEN cart
                         ELSE delete_table_data(cart, [product_id |-> hit[1].product_id])]

\* What the handler answers and leaves in the cart table.
remove_cart_item_outcome(cart, cart_item_id) ==
    [resp |-> [op |-> "remove_cart_item", code |-> 200, message |-> "Item removed from cart"],
     mobile_cart |-> delete_table_data(cart, [id |-> cart_item_id])]

remove_cart_item(cart_item_id) ==
    LET out == remove_cart_item_outcome(mobile_cart, cart_item_id)
    IN  /\ resp' = out.resp
        /\ mobile_cart' = out.mobile_cart
        /\ UNCHANGED <<products, mobile_orders, nextCartRowId, inflight, user_addresses>>

(***************************************************************************)
(* DELETE /app/cart.  The HTTPException(400) is raised inside the try      *)
(* block, whose only handler is `except Exception`, which re-raises it as  *)
(* a 500.                                                                  *)
(***************************************************************************)
\* What the handler answers and leaves in the cart table.
clear_cart_outcome(cart, user_phone, guest_id) ==
    LET cart_id == IF Truthy(user_phone) THEN user_phone ELSE guest_id
    IN  IF ~Truthy(cart_id)
        THEN [resp |-> [op |-> "clear_cart", code |-> 500,
                        detail |-> "Error clearing cart: 400: No cart ID provided"],
              mobile_cart |-> cart]
        ELSE [resp |-> [op |-> "clear_cart", code |-> 200, message |-> "Cart cleared"],
              mobile_cart |-> delete_table_data(cart, [cart_id |-> cart_id])]

clear_cart(user_phone, guest_id) ==
    LET out == clear_cart_outcome(mobile_cart, user_phone, guest_id)
    IN  /\ resp' = out.resp
        /\ mobile_cart' = out.mobile_cart
        /\ UNCHANGED <<products, mobile_orders, nextCartRowId, inflight, user_addresses>>

\* The quantities of a list of lines, added up.
RECURSIVE SumItemQuantities(_)
SumItemQuantities(items) ==
    IF items = <<>> THEN 0 ELSE items[1].quantity + SumItemQuantities(Tail(items))

(***************************************************************************)
(* POST /app/checkout                                                      *)
(***************************************************************************)
order_stock_short_strict(product, quantity) == product.stock_quantity <= quantity

\* product["stock_quantity"] < cart_item.quantity
order_stock_short(product, quantity) == product.stock_quantity < quantity

\* The loop with get_cart's tolerance: an unknown product's line is skipped.
RECURSIVE place_order_loop_skipping(_, _, _, _)
place_order_loop_skipping(cart_items, prods, i, acc) ==
    IF i > Len(cart_items) THEN acc
    ELSE LET cart_item == cart_items[i]
             hit == FirstById(prods, cart_item.product_id)
             product == hit[1]
             unit_price == product.base_price
             item_total == unit_price * cart_item.quantity
         IN  IF hit = <<>>
             THEN place_order_loop_skipping(cart_items, prods, i + 1, acc)
             ELSE IF order_stock_short(product, cart_item.quantity)
             THEN [acc EXCEPT !.code = 400, !.detail = "Insufficient stock"]
             ELSE place_order_loop_skipping(cart_items, prods, i + 1,
                     [code |-> 0, detail |-> "",
                      subtotal |-> acc.subtotal + item_total,
                      order_items |-> Append(acc.order_items,
                          [product_id |-> cart_item.product_id,
                           product_name |-> product.name,
                           quantity |-> cart_item.quantity,
                           selected_weight |-> cart_item.selected_weight,
                           unit_price |-> unit_price,
                           item_total |-> item_total])])

\* As the loop, were a line priced at the price the catalogue first listed.
RECURSIVE place_order_loop_listed_price(_, _, _, _)
place_order_loop_listed_price(cart_items, prods, i, acc) ==
    IF i > Len(cart_items) THEN acc
    ELSE LET cart_item == cart_items[i]
             hit == FirstById(prods, cart_item.product_id)
             product == hit[1]
             unit_price == IF product.id = "p1" THEN 50 ELSE product.base_price
             item_total == unit_price * cart_item.quantity
         IN  IF hit = <<>>
             THEN [acc EXCEPT !.code = 404, !.detail = "Product not found"]
             ELSE IF order_stock_short(product, cart_item.quantity)
             THEN [acc EXCEPT !.code = 400, !.detail = "Insufficient stock"]
             ELSE place_order_loop_listed_price(cart_items, prods, i + 1,
                     [code |-> 0, detail |-> "",
                      subtotal |-> acc.subtotal + item_total,
                      order_items |-> Append(acc.order_items,
                          [product_id |-> cart_item.product_id,
                           product_name |-> product.name,
                           quantity |-> cart_item.quantity,
                           selected_weight |-> cart_item.selected_weight,
                           unit_price |-> unit_price,
                           item_total |-> item_total])])

\* As the loop, were the stock checked against all the lines of a product.
RECURSIVE place_order_loop_per_product(_, _, _, _)
place_order_loop_per_product(cart_items, prods, i, acc) ==
    IF i > Len(cart_items) THEN acc
    ELSE LET cart_item == cart_items[i]
             hit == FirstById(prods, cart_item.product_id)
             product == hit[1]
             unit_price == product.base_price
             item_total == unit_price * cart_item.quantity
             taken == SumItemQuantities(SelectSeq(acc.order_items,
                         LAMBDA it : it.product_id = cart_item.product_id))
         IN  IF hit = <<>>
             THEN [acc EXCEPT !.code = 404, !.detail = "Product not found"]
             ELSE IF order_stock_short(product, taken + cart_item.quantity)
             THEN [acc EXCEPT !.code = 400, !.detail = "Insufficient stock"]
             ELSE place_order_loop_per_product(cart_items, prods, i + 1,
                     [code |-> 0, detail |-> "",
                      subtotal |-> acc.subtotal + item_total,
                      order_items |-> Append(acc.order_items,
                          [product_id |-> cart_item.product_id,
                           product_name |-> product.name,
                           quantity |-> cart_item.quantity,
                           selected_weight |-> cart_item.selected_weight,
                           unit_price |-> unit_price,
                           item_total |-> item_total])])

RECURSIVE place_order_loop(_, _, _, _)
place_order_loop(cart_items, prods, i, acc) ==
    IF i > Len(cart_items) THEN acc
    ELSE LET cart_item == cart_items[i]
             hit == FirstById(prods, cart_item.product_id)
             product == hit[1]
             unit_price == product.base_price
             item_total == unit_price * cart_item.quantity
         IN  IF hit = <<>>
             THEN [acc EXCEPT !.code = 404, !.detail = "Product not found"]
             ELSE IF order_stock_short(product, cart_item.quantity)
             THEN [acc EXCEPT !.code = 400, !.detail = "Insufficient stock"]
             ELSE place_order_loop(cart_items, prods, i + 1,
                     [code |-> 0, detail |-> "",
                      subtotal |-> acc.subtotal + item_total,
                      order_items |-> Append(acc.order_items,
                          [product_id |-> cart_item.product_id,
                           product_name |-> product.name,
                           quantity |-> cart_item.quantity,
                           selected_weight |-> cart_item.selected_weight,
                           unit_price |-> unit_price,
                           item_total |-> item_total])])

\* What the handler answers and leaves in the tables, given what it reads.
place_order_outcome(orders, cart, prods, order, now) ==
    LET priced == place_order_loop(order.cart_items, prods, 1,
                     [code |-> 0, detail |-> "", subtotal |-> 0, order_items |-> <<>>])
        subtotal == priced.subtotal
        delivery_charge == order_delivery_charge(subtotal)
        total_amount == total_amount_of(subtotal, delivery_charge)
        existing_orders == get_table_data(orders, <<>>)
        order_number == order_number_of(Len(existing_orders))
        mobile_order ==
            [id |-> Len(orders) + 1,
             order_number |-> order_number,
             user_phone |-> order.user_phone,
             customer_name |-> order.delivery_address.name,
             delivery_address |-> order.delivery_address,
             subtotal |-> subtotal,
             delivery_charge |-> delivery_charge,
             total_amount |-> total_amount,
             delivery_slot |-> order.delivery_slot,
             payment_method |-> order.payment_method,
             special_instructions |-> order.special_instructions,
             status |-> "placed",
             items |-> priced.order_items,
             created_at |-> now]
        Fail(code, detail) ==
            [resp |-> [op |-> "place_order", code |-> code, detail |-> detail],
             mobile_orders |-> orders, mobile_cart |-> cart]
    IN  IF \E i \in DOMAIN order.cart_items : ~validate_quantity(order.cart_items[i].quantity)
        THEN Fail(422, "Quantity must be between 1 and 20")
        ELSE IF order.cart_items = <<>> THEN Fail(400, "Cart is empty")
        ELSE IF priced.code # 0 THEN Fail(priced.code, priced.detail)
        ELSE [resp |-> [op |-> "place_order", code |-> 200,
                        order_id |-> mobile_order.id,
                        order_number |-> order_number,
                        total_amount |-> total_amount],
              mobile_orders |-> insert_table_data(orders, mobile_order),
              mobile_cart |-> IF Truthy(order.user_phone)
                              THEN delete_table_data(cart, [cart_id |-> order.user_phone])
                              ELSE cart]

\* As the handler, were the ordered quantities taken off the stock.
place_order_decrementing(order, now) ==
    LET out == place_order_outcome(mobile_orders, mobile_cart, products, order, now)
        Ordered(product_id) ==
            SumItemQuantities(SelectSeq(order.cart_items,
                                        LAMBDA ci : ci.product_id = product_id))
    IN  /\ out.resp.code = 200 => Len(mobile_orders) < MaxOrders
        /\ resp' = out.resp
        /\ mobile_orders' = out.mobile_orders
        /\ mobile_cart' = out.mobile_cart
        /\ products' = IF out.resp.code # 200 THEN products
                       ELSE [i \in DOMAIN products |->
                               [products[i] EXCEPT
                                  !.stock_quantity = @ - Ordered(products[i].id)]]
        /\ UNCHANGED <<nextCartRowId, inflight, user_addresses>>

place_order(order, now) ==
    LET out == place_order_outcome(mobile_orders, mobile_cart, products, order, now)
    IN  /\ out.resp.code = 200 => Len(mobile_orders) < MaxOrders
        /\ resp' = out.resp
        /\ mobile_orders' = out.mobile_orders
        /\ mobile_cart' = out.mobile_cart
        /\ UNCHANGED <<products, nextCartRowId, inflight, user_addresses>>

(***************************************************************************)
(* POST /app/checkout, store call by store call, on thread w.  Between     *)
(* the calls the other thread may run.                                     *)
(***************************************************************************)
\* The order row as the handler builds it: the store assigns the id.
WithoutId(row) == [k \in (DOMAIN row) \ {"id"} |-> row[k]]

Inserting == {w \in Workers : inflight[w].pc = "insert"}

\* Lines 719-772: the lines are checked against the products read, the
\* stored orders are counted and the order row is built.
place_order_read(w, order, now) ==
    LET out == place_order_outcome(mobile_orders, mobile_cart, products, order, now)
    IN  /\ inflight[w] = Idle
        /\ out.resp.code = 200 => Len(mobile_orders) + Cardinality(Inserting) < MaxOrders
        /\ IF out.resp.code # 200
           THEN /\ resp' = out.resp
                /\ UNCHANGED inflight
           ELSE /\ inflight' = [inflight EXCEPT ![w] =
                                  [pc |-> "insert",
                                   order |-> order,
                                   mobile_order |->
                                      WithoutId(out.mobile_orders[Len(out.mobile_orders)]),
                                   answer |-> out.resp]]
                /\ UNCHANGED resp
        /\ UNCHANGED <<products, mobile_cart, mobile_orders, nextCartRowId, user_addresses>>

\* Line 775: the row is inserted and the store gives it its id.
place_order_insert(w) ==
    LET id == Len(mobile_orders) + 1
    IN  /\ inflight[w].pc = "insert"
        /\ mobile_orders' = insert_table_data(mobile_orders,
                                Merge(inflight[w].mobile_order, [id |-> id]))
        /\ inflight' = [inflight EXCEPT ![w] =
                           [pc |-> "clear",
                            order |-> inflight[w].order,
                            answer |-> Merge(inflight[w].answer, [order_id |-> id])]]
        /\ UNCHANGED <<products, mobile_cart, nextCartRowId, resp, user_addresses>>

\* As the clearing, were only the lines that went into the order deleted.
place_order_clear_ordered_lines(w) ==
    LET user_phone == inflight[w].order.user_phone
        cart_items == inflight[w].order.cart_items
        Ordered(row) == \E i \in DOMAIN cart_items :
                           /\ cart_items[i].product_id = row.product_id
                           /\ cart_items[i].selected_weight = row.selected_weight
    IN  /\ inflight[w].pc = "clear"
        /\ mobile_cart' = IF Truthy(user_phone)
                          THEN SelectSeq(mobile_cart,
                                   LAMBDA row : ~(row.cart_id = user_phone /\ Ordered(row)))
                          ELSE mobile_cart
        /\ resp' = inflight[w].answer
        /\ inflight' = [inflight EXCEPT ![w] = Idle]
        /\ UNCHANGED <<products, mobile_orders, nextCartRowId, user_addresses>>

\* Lines 778-797: the user's cart is cleared and the order is reported.
place_order_clear(w) ==
    LET user_phone == inflight[w].order.user_phone
    IN  /\ inflight[w].pc = "clear"
        /\ mobile_cart' = IF Truthy(user_phone)
                          THEN delete_table_data(mobile_cart, [cart_id |-> user_phone])
                          ELSE mobile_cart
        /\ resp' = inflight[w].answer
        /\ inflight' = [inflight EXCEPT ![w] = Idle]
        /\ UNCHANGED <<products, mobile_orders, nextCartRowId, user_addresses>>

(***************************************************************************)
(* POST /app/cart/add, store call by store call, on thread w.              *)
(***************************************************************************)
CartInserting == {w \in Workers : inflight[w].pc = "cart_insert"}

\* Lines 536-564 and 572-578: the product and the cart's line for the
\* (product, weight) are read and the handler decides what to write.
add_to_cart_read(w, item, user_phone, guest_token) ==
    LET out == add_to_cart_outcome(mobile_cart, products, nextCartRowId,
                                   item, user_phone, guest_token)
        cart_id == IF Truthy(user_phone) THEN user_phone ELSE guest_token
        existing_items == existing_cart_items(mobile_cart, cart_id, item)
    IN  /\ inflight[w] = Idle
        /\ out.inserted => nextCartRowId + Cardinality(CartInserting) <= MaxCartRows
        /\ IF out.resp.code # 200
           THEN /\ resp' = out.resp
                /\ UNCHANGED inflight
           ELSE /\ inflight' = [inflight EXCEPT ![w] =
                                  IF out.inserted
                                  THEN [pc |-> "cart_insert",
                                        item |-> item,
                                        cart_item |-> WithoutId(out.resp.cart_item)]
                                  ELSE [pc |-> "cart_update",
                                        item |-> item,
                                        existing_item |-> existing_items[1],
                                        new_quantity |-> out.resp.quantity]]
                /\ UNCHANGED resp
        /\ UNCHANGED <<products, mobile_cart, mobile_orders, nextCartRowId, user_addresses>>

\* Line 580: the new line is inserted and the store gives it its id.
add_to_cart_insert(w) ==
    LET cart_item == Merge(inflight[w].cart_item, [id |-> nextCartRowId])
    IN  /\ inflight[w].pc = "cart_insert"
        /\ mobile_cart' = insert_table_data(mobile_cart, cart_item)
        /\ nextCartRowId' = nextCartRowId + 1
        /\ inflight' = [inflight EXCEPT ![w] =
                           [pc |-> "cart_answer",
                            item |-> inflight[w].item,
                            answer |-> [op |-> "add_to_cart", code |-> 200,
                                        message |-> "Added to cart",
                                        cart_item |-> cart_item]]]
        /\ UNCHANGED <<products, mobile_orders, resp, user_addresses>>

\* As the update, were the quantity added to what the line holds by then.
add_to_cart_update_incrementing(w) ==
    LET existing_item == inflight[w].existing_item
        current == get_table_data(mobile_cart, [id |-> existing_item.id])
        new_quantity == IF current = <<>> THEN inflight[w].new_quantity
                        ELSE current[1].quantity + inflight[w].item.quantity
    IN  /\ inflight[w].pc = "cart_update"
        /\ mobile_cart' = update_table_data(mobile_cart, [quantity |-> new_quantity],
                                            [id |-> existing_item.id])
        /\ inflight' = [inflight EXCEPT ![w] =
                           [pc |-> "cart_answer",
                            item |-> inflight[w].item,
                            existing_item |-> existing_item,
                            answer |-> [op |-> "add_to_cart", code |-> 200,
                                        message |-> "Cart updated",
                                        quantity |-> new_quantity]]]
        /\ UNCHANGED <<products, mobile_orders, nextCartRowId, resp, user_addresses>>

\* Line 567: the line that was read is given the quantity computed from it.
add_to_cart_update(w) ==
    LET existing_item == inflight[w].existing_item
        new_quantity == inflight[w].new_quantity
    IN  /\ inflight[w].pc = "cart_update"
        /\ mobile_cart' = update_table_data(mobile_cart, [quantity |-> new_quantity],
                                            [id |-> existing_item.id])
        /\ inflight' = [inflight EXCEPT ![w] =
                           [pc |-> "cart_answer",
                            item |-> inflight[w].item,
                            existing_item |-> existing_item,
                            answer |-> [op |-> "add_to_cart", code |-> 200,
                                        message |-> "Cart updated",
                                        quantity |-> new_quantity]]]
        /\ UNCHANGED <<products, mobile_orders, nextCartRowId, resp, user_addresses>>

\* Lines 569 and 581: the answer is returned.
add_to_cart_return(w) ==
    /\ inflight[w].pc = "cart_answer"
    /\ resp' = inflight[w].answer
    /\ inflight' = [inflight EXCEPT ![w] = Idle]
    /\ UNCHANGED <<products, mobile_cart, mobile_orders, nextCartRowId, user_addresses>>

(***************************************************************************)
(* GET /app/orders/track/{order_number}                                    *)
(***************************************************************************)
\* As the timeline, were a cancelled order shown as delivered.
tracking_timeline_cancelled_delivered(status) ==
    <<[step |-> "placed", title |-> "Order Placed", completed |-> TRUE],
      [step |-> "confirmed", title |-> "Order Confirmed",
       completed |-> status \in {"confirmed", "preparing", "out_for_delivery", "delivered"}],
      [step |-> "preparing", title |-> "Preparing",
       completed |-> status \in {"preparing", "out_for_delivery", "delivered"}],
      [step |-> "out_for_delivery", title |-> "Out for Delivery",
       completed |-> status \in {"out_for_delivery", "delivered"}],
      [step |-> "delivered", title |-> "Delivered",
       completed |-> status \in {"delivered", "cancelled"}]>>

tracking_timeline(status) ==
    <<[step |-> "placed", title |-> "Order Placed", completed |-> TRUE],
      [step |-> "confirmed", title |-> "Order Confirmed",
       completed |-> status \in {"confirmed", "preparing", "out_for_delivery", "delivered"}],
      [step |-> "preparing", title |-> "Preparing",
       completed |-> status \in {"preparing", "out_for_delivery", "delivered"}],
      [step |-> "out_for_delivery", title |-> "Out for Delivery",
       completed |-> status \in {"out_for_delivery", "delivered"}],
      [step |-> "delivered", title |-> "Delivered", completed |-> status = "delivered"]>>

\* As the lookup, were the last order with the number returned.
track_order_response_last_match(orders, order_number) ==
    LET found == get_table_data(orders, [order_number |-> order_number])
        order == found[Len(found)]
    IN  IF found = <<>>
        THEN [op |-> "track_order", code |-> 404, detail |-> "Order not found"]
        ELSE [op |-> "track_order", code |-> 200,
              order |-> Merge(order, [tracking_timeline |-> tracking_timeline(order.status)])]

\* What the handler answers, given the orders it reads.
track_order_response(orders, order_number) ==
    LET found == get_table_data(orders, [order_number |-> order_number])
        order == found[1]
        status == IF "status" \in DOMAIN order THEN order.status ELSE "placed"
    IN  IF found = <<>>
        THEN [op |-> "track_order", code |-> 404, detail |-> "Order not found"]
        ELSE [op |-> "track_order", code |-> 200,
              order |-> Merge(order, [tracking_timeline |-> tracking_timeline(status)])]

track_order(order_number) ==
    /\ resp' = track_order_response(mobile_orders, order_number)
    /\ UNCHANGED <<products, mobile_cart, mobile_orders, nextCartRowId, inflight, user_addresses>>

(***************************************************************************)
(* PUT /admin/orders/{order_id}/status                                     *)
(***************************************************************************)
\* As the handler without its validation of the status (lines 950-954).
update_order_status_outcome_unvalidated(orders, order_id, status_data, now) ==
    LET new_status == Get(status_data, "status")
        update_data == [status |-> new_status, updated_at |-> now]
        filters == [id |-> order_id]
    IN  [resp |-> IF update_table_result(orders, filters)
                  THEN [op |-> "update_order_status_admin", code |-> 200,
                        status |-> new_status]
                  ELSE [op |-> "update_order_status_admin", code |-> 404,
                        detail |-> "Order not found"],
         mobile_orders |-> update_table_data(orders, update_data, filters)]

\* As the handler, were delivered and cancelled terminal.
update_order_status_outcome_guarded(orders, order_id, status_data, now) ==
    LET new_status == Get(status_data, "status")
        update_data == [status |-> new_status, updated_at |-> now]
        filters == [id |-> order_id]
        current == get_table_data(orders, filters)
    IN  IF \/ new_status \notin Range(valid_statuses)
           \/ (current # <<>> /\ current[1].status \in {"delivered", "cancelled"})
        THEN [resp |-> [op |-> "update_order_status_admin", code |-> 400,
                        detail |-> "Invalid status"],
              mobile_orders |-> orders]
        ELSE [resp |-> IF update_table_result(orders, filters)
                       THEN [op |-> "update_order_status_admin", code |-> 200,
                             status |-> new_status]
                       ELSE [op |-> "update_order_status_admin", code |-> 404,
                             detail |-> "Order not found"],
              mobile_orders |-> update_table_data(orders, update_data, filters)]

\* As the handler, were the delivery made free when the status is set.
update_order_status_outcome_free_delivery(orders, order_id, status_data, now) ==
    LET new_status == Get(status_data, "status")
        update_data == [status |-> new_status, updated_at |-> now, delivery_charge |-> 0]
        filters == [id |-> order_id]
    IN  IF new_status \notin Range(valid_statuses)
        THEN [resp |-> [op |-> "update_order_status_admin", code |-> 400,
                        detail |-> "Invalid status"],
              mobile_orders |-> orders]
        ELSE [resp |-> IF update_table_result(orders, filters)
                       THEN [op |-> "update_order_status_admin", code |-> 200,
                             status |-> new_status]
                       ELSE [op |-> "update_order_status_admin", code |-> 404,
                             detail |-> "Order not found"],
              mobile_orders |-> update_table_data(orders, update_data, filters)]

\* What the handler answers and leaves in the orders table, given what it reads.
update_order_status_outcome(orders, order_id, status_data, now) ==
    LET new_status == Get(status_data, "status")
        update_data == [status |-> new_status, updated_at |-> now]
        filters == [id |-> order_id]
    IN  IF new_status \notin Range(valid_statuses)
        THEN [resp |-> [op |-> "update_order_status_admin", code |-> 400,
                        detail |-> "Invalid status"],
              mobile_orders |-> orders]
        ELSE [resp |-> IF update_table_result(orders, filters)
                       THEN [op |-> "update_order_status_admin", code |-> 200,
                             status |-> new_status]
                       ELSE [op |-> "update_order_status_admin", code |-> 404,
                             detail |-> "Order not found"],
              mobile_orders |-> update_table_data(orders, update_data, filters)]

update_order_status_admin(order_id, status_data, now) ==
    LET out == update_order_status_outcome(mobile_orders, order_id, status_data, now)
    IN  /\ resp' = out.resp
        /\ mobile_orders' = out.mobile_orders
        /\ UNCHANGED <<products, mobile_cart, nextCartRowId, inflight, user_addresses>>

(***************************************************************************)
(* PUT /admin/inventory/{product_id}/stock                                 *)
(***************************************************************************)
update_stock(product_id, stock_data) ==
    LET new_stock == Get(stock_data, "stock_quantity")
        filters == [id |-> product_id]
    IN  /\ UNCHANGED <<mobile_cart, mobile_orders, nextCartRowId, inflight, user_addresses>>
        /\ IF "stock_quantity" \notin DOMAIN stock_data \/ new_stock < 0
           THEN /\ resp' = [op |-> "update_stock", code |-> 400]
                /\ UNCHANGED products
           ELSE /\ products' = update_table_data(products, [stock_quantity |-> new_stock], filters)
                /\ resp' = IF update_table_result(products, filters)
                           THEN [op |-> "update_stock", code |-> 200, new_stock |-> new_stock]
                           ELSE [op |-> "update_stock", code |-> 404]

(***************************************************************************)
(* PUT /admin/products/{product_id}                                        *)
(***************************************************************************)
update_product(product_id, product_data) ==
    LET filters == [id |-> product_id]
    IN  /\ UNCHANGED <<mobile_cart, mobile_orders, nextCartRowId, inflight, user_addresses>>
        /\ products' = update_table_data(products, product_data, filters)
        /\ resp' = IF update_table_result(products, filters)
                   THEN [op |-> "update_product", code |-> 200]
                   ELSE [op |-> "update_product", code |-> 404]

(***************************************************************************)
(* update_table_data on the products table, store call by store call, on   *)
(* thread w, as PUT /admin/inventory/{product_id}/stock and                *)
(* PUT /admin/products/{product_id} run it.                                *)
(***************************************************************************)
\* Lines 142-146: the record is read and the new values are laid over it.
update_table_data_read(w, op, data, filters, answer) ==
    LET existing_records == get_table_data(products, filters)
        record == existing_records[1]
    IN  /\ inflight[w] = Idle
        /\ IF existing_records = <<>>
           THEN /\ resp' = [op |-> op, code |-> 404]
                /\ UNCHANGED inflight
           ELSE /\ inflight' = [inflight EXCEPT ![w] =
                                  [pc |-> "upsert", record |-> record, data |-> data,
                                   updated_data |-> Merge(record, data),
                                   answer |-> answer]]
                /\ UNCHANGED resp
        /\ UNCHANGED <<products, mobile_cart, mobile_orders, nextCartRowId, user_addresses>>

\* As the write, were only the new values laid over the row the table holds.
update_table_data_upsert_changed_fields(w) ==
    /\ inflight[w].pc = "upsert"
    /\ products' = update_table_data(products, inflight[w].data,
                                     [id |-> inflight[w].record.id])
    /\ inflight' = [inflight EXCEPT ![w].pc = "update_answer"]
    /\ UNCHANGED <<mobile_cart, mobile_orders, nextCartRowId, resp, user_addresses>>

\* Line 147: the whole record is written back.
update_table_data_upsert(w) ==
    /\ inflight[w].pc = "upsert"
    /\ products' = upsert(products, inflight[w].updated_data)
    /\ inflight' = [inflight EXCEPT ![w].pc = "update_answer"]
    /\ UNCHANGED <<mobile_cart, mobile_orders, nextCartRowId, resp, user_addresses>>

\* Lines 1361-1362 and 1655-1656: the handler answers.
update_table_data_return(w) ==
    /\ inflight[w].pc = "update_answer"
    /\ resp' = inflight[w].answer
    /\ inflight' = [inflight EXCEPT ![w] = Idle]
    /\ UNCHANGED <<products, mobile_cart, mobile_orders, nextCartRowId, user_addresses>>

\* Lines 1350-1359: update_stock up to update_table_data's read.
update_stock_read(w, product_id, stock_data) ==
    LET new_stock == Get(stock_data, "stock_quantity")
    IN  IF "stock_quantity" \notin DOMAIN stock_data \/ new_stock < 0
        THEN /\ inflight[w] = Idle
             /\ resp' = [op |-> "update_stock", code |-> 400]
             /\ UNCHANGED <<products, mobile_cart, mobile_orders, nextCartRowId,
                            inflight, user_addresses>>
        ELSE update_table_data_read(w, "update_stock", [stock_quantity |-> new_stock],
                                    [id |-> product_id],
                                    [op |-> "update_stock", code |-> 200,
                                     new_stock |-> new_stock])

\* Lines 1642-1653: update_product up to update_table_data's read.
update_product_read(w, product_id, product_data) ==
    update_table_data_read(w, "update_product", product_data, [id |-> product_id],
                           [op |-> "update_product", code |-> 200])

(***************************************************************************)
(* DELETE /admin/products/{product_id}                                     *)
(***************************************************************************)
delete_product(product_id) ==
    LET found == get_table_data(products, [id |-> product_id])
    IN  /\ UNCHANGED <<mobile_orders, nextCartRowId, inflight, user_addresses>>
        /\ IF found = <<>>
           THEN /\ resp' = [op |-> "delete_product", code |-> 404]
                /\ UNCHANGED <<products, mobile_cart>>
           ELSE /\ mobile_cart' = delete_table_data(mobile_cart, [product_id |-> product_id])
                /\ products' = delete_table_data(products, [id |-> product_id])
                /\ resp' = [op |-> "delete_product", code |-> 200]

\* The handler when the store refuses the deletion of the product's cart
\* lines: the error is caught and printed (lines 1698-1702), and the product
\* is deleted all the same.
delete_product_cart_error(product_id) ==
    LET found == get_table_data(products, [id |-> product_id])
    IN  /\ UNCHANGED <<mobile_cart, mobile_orders, nextCartRowId, inflight, user_addresses>>
        /\ IF found = <<>>
           THEN /\ resp' = [op |-> "delete_product", code |-> 404]
                /\ UNCHANGED products
           ELSE /\ products' = delete_table_data(products, [id |-> product_id])
                /\ resp' = [op |-> "delete_product", code |-> 200]

(***************************************************************************)
(* POST /app/user/addresses                                                *)
(***************************************************************************)
save_user_address(address, user_phone, now) ==
    LET address_data ==
            Merge(Merge([user_phone |-> user_phone], address),
                  [created_at |-> now, id |-> Len(user_addresses) + 1])
    IN  /\ UNCHANGED <<products, mobile_cart, mobile_orders, nextCartRowId, inflight>>
        /\ IF ~Truthy(user_phone)
           THEN /\ resp' = [op |-> "save_user_address", code |-> 400,
                            detail |-> "User phone required"]
                /\ UNCHANGED user_addresses
           ELSE /\ Len(user_addresses) < MaxAddresses
                /\ user_addresses' = insert_table_data(user_addresses, address_data)
                /\ resp' = [op |-> "save_user_address", code |-> 200,
                            message |-> "Address saved", address_id |-> address_data.id]

(***************************************************************************)
(* The handlers when a call to the store fails.  get_table_data catches    *)
(* the error of a failed select, prints it and returns [] (lines 126-128); *)
(* a failed delete made directly on the client raises into the handler.    *)
(***************************************************************************)
\* What get_table_data returns when the select raises.
get_table_data_error == <<>>

\* add_to_cart when its read of products fails (line 538).
add_to_cart_read_error_outcome(cart, next_id, item, user_phone, guest_token) ==
    add_to_cart_outcome(cart, get_table_data_error, next_id, item, user_phone, guest_token)

add_to_cart_read_error(item, user_phone, guest_token) ==
    LET out == add_to_cart_read_error_outcome(mobile_cart, nextCartRowId, item,
                                              user_phone, guest_token)
    IN  /\ resp' = out.resp
        /\ mobile_cart' = out.mobile_cart
        /\ ~out.inserted
        /\ UNCHANGED <<products, mobile_orders, nextCartRowId, inflight, user_addresses>>

\* get_cart when its read of mobile_cart fails (line 596).
get_cart_read_error_response(prods, user_phone, guest_id) ==
    get_cart_response(get_table_data_error, prods, user_phone, guest_id)

get_cart_read_error(user_phone, guest_id) ==
    /\ resp' = get_cart_read_error_response(products, user_phone, guest_id)
    /\ UNCHANGED <<products, mobile_cart, mobile_orders, nextCartRowId, inflight, user_addresses>>

\* update_cart_item when its read of mobile_cart fails (line 663): what it
\* answers; for a positive quantity it writes nothing.
update_cart_item_read_error_response(prods, cart_item_id, quantity) ==
    update_cart_item_outcome(get_table_data_error, prods, cart_item_id, quantity).resp

update_cart_item_read_error(cart_item_id, quantity) ==
    /\ quantity > 0
    /\ resp' = update_cart_item_read_error_response(products, cart_item_id, quantity)
    /\ UNCHANGED <<products, mobile_cart, mobile_orders, nextCartRowId, inflight, user_addresses>>

\* place_order when its read of products fails (line 726): what it answers;
\* it writes nothing.
place_order_products_error_response(orders, cart, order, now) ==
    place_order_outcome(orders, cart, get_table_data_error, order, now).resp

place_order_products_error(order, now) ==
    /\ resp' = place_order_products_error_response(mobile_orders, mobile_cart, order, now)
    /\ resp'.code # 200
    /\ UNCHANGED <<products, mobile_cart, mobile_orders, nextCartRowId, inflight, user_addresses>>

\* place_order when its read of mobile_orders fails (line 754): the orders
\* are counted as none, and the row is inserted into the table as it is.
place_order_count_error_outcome(orders, cart, prods, order, now) ==
    LET out == place_order_outcome(get_table_data_error, cart, prods, order, now)
        id == Len(orders) + 1
    IN  IF out.resp.code # 200
        THEN [resp |-> out.resp, mobile_orders |-> orders, mobile_cart |-> cart]
        ELSE [resp |-> Merge(out.resp, [order_id |-> id]),
              mobile_orders |-> insert_table_data(orders,
                                   Merge(out.mobile_orders[1], [id |-> id])),
              mobile_cart |-> out.mobile_cart]

place_order_count_error(order, now) ==
    LET out == place_order_count_error_outcome(mobile_orders, mobile_cart, products,
                                               order, now)
    IN  /\ out.resp.code = 200 => Len(mobile_orders) < MaxOrders
        /\ resp' = out.resp
        /\ mobile_orders' = out.mobile_orders
        /\ mobile_cart' = out.mobile_cart
        /\ UNCHANGED <<products, nextCartRowId, inflight, user_addresses>>

\* place_order when the deletion of the user's cart lines fails (line 779):
\* the order row is already inserted, and the error reaches the handler's
\* `except Exception` (lines 796-797).
place_order_clear_error_outcome(orders, cart, prods, order, now) ==
    LET out == place_order_outcome(orders, cart, prods, order, now)
    IN  IF out.resp.code # 200 \/ ~Truthy(order.user_phone)
        THEN out
        ELSE [resp |-> [op |-> "place_order", code |-> 500,
                        detail |-> "Error placing order"],
              mobile_orders |-> out.mobile_orders,
              mobile_cart |-> cart]

place_order_clear_error(order, now) ==
    LET out == place_order_clear_error_outcome(mobile_orders, mobile_cart, products,
                                               order, now)
    IN  /\ out.resp.code \in {200, 500} => Len(mobile_orders) < MaxOrders
        /\ resp' = out.resp
        /\ mobile_orders' = out.mobile_orders
        /\ mobile_cart' = out.mobile_cart
        /\ UNCHANGED <<products, nextCartRowId, inflight, user_addresses>>

\* update_order_status_admin when update_table_data's read of mobile_orders
\* fails (line 142): what it answers; it writes nothing.
update_order_status_read_error_response(order_id, status_data, now) ==
    update_order_status_outcome(get_table_data_error, order_id, status_data, now).resp

update_order_status_read_error(order_id, status_data, now) ==
    /\ resp' = update_order_status_read_error_response(order_id, status_data, now)
    /\ UNCHANGED <<products, mobile_cart, mobile_orders, nextCartRowId, inflight, user_addresses>>

(***************************************************************************)
(* Requests.  Each handler is offered every request drawn from the given   *)
(* sets; the specifications below differ only in the handlers they offer   *)
(* and in the sets the requests are drawn from.                            *)
(***************************************************************************)
AddToCartFrom(product_ids, quantities, weights, phones) ==
    \E product_id \in product_ids, quantity \in quantities, selected_weight \in weights,
       user_phone \in phones, guest_token \in GuestTokens :
        add_to_cart(CartItem(product_id, quantity, selected_weight), user_phone, guest_token)

GetCart ==
    \E user_phone \in {Phone1, None}, guest_id \in GuestTokens \cup {None} :
        get_cart(user_phone, guest_id)

UpdateCartItemFrom(quantities) ==
    \E cart_item_id \in 1 .. (MaxCartRows + 1), quantity \in quantities :
        update_cart_item(cart_item_id, quantity)

RemoveCartItem == \E cart_item_id \in 1 .. (MaxCartRows + 1) : remove_cart_item(cart_item_id)

ClearCart ==
    \E user_phone \in {Phone1, None}, guest_id \in GuestTokens \cup {None} :
        clear_cart(user_phone, guest_id)

UpdateStock ==
    \E product_id \in ProductIds \cup {UnknownProductId},
       stock_data \in {[stock_quantity |-> s] : s \in Stocks \cup {-1}} \cup {<<>>} :
        update_stock(product_id, stock_data)

UpdateProductFrom(product_ids, product_datas) ==
    \E product_id \in product_ids, product_data \in product_datas :
        update_product(product_id, product_data)

DeleteProduct == \E product_id \in ProductIds \cup {UnknownProductId} : delete_product(product_id)

\* The sequences of at most n elements of S.
RECURSIVE SeqsUpTo(_, _)
SeqsUpTo(S, n) ==
    IF n = 0 THEN {<<>>}
    ELSE LET shorter == SeqsUpTo(S, n - 1)
         IN  shorter \cup {Append(q, x) : q \in shorter, x \in S}

PlaceOrderFrom(phones, cart_item_choices) ==
    \E user_phone \in phones, cart_items \in SeqsUpTo(cart_item_choices, MaxLines),
       now \in Times :
        place_order(OrderCheckout(user_phone, Address1, cart_items), now)

UpdateOrderStatus ==
    \E order_id \in 1 .. (MaxOrders + 1),
       status_data \in {[status |-> st] : st \in Range(valid_statuses) \cup {"shipped"}}
                          \cup {<<>>},
       now \in Times :
        update_order_status_admin(order_id, status_data, now)

\* The order numbers a client can ask for: those of the first MaxOrders
\* orders and one more.
OrderNumbers == {order_number_of(n) : n \in 0 .. MaxOrders}

TrackOrder == \E order_number \in OrderNumbers : track_order(order_number)

(***************************************************************************)
(* SpecCart: the cart and the catalogue.  Every cart handler, and the      *)
(* admin handlers that restock or delete a product, one request at a time. *)
(***************************************************************************)
NextCart ==
    \/ AddToCartFrom(ProductIds \cup {UnknownProductId}, Quantities \ {0}, Weights,
                     {Phone1, None})
    \/ GetCart
    \/ UpdateCartItemFrom(Quantities)
    \/ RemoveCartItem
    \/ ClearCart
    \/ UpdateStock
    \/ DeleteProduct

SpecCart == Init /\ [][NextCart]_vars

(***************************************************************************)
(* SpecBulk: one user's cart of a well-stocked product (the seeded         *)
(* catalogue holds stocks of 10 to 60) that the admin can deactivate.      *)
(***************************************************************************)
BulkStock == 21
BulkQuantities == {0, 1, 20, 21}

InitBulk ==
    /\ products = <<ProductRow("p1", 50, BulkStock, TRUE), ProductRow("p2", 199, 1, TRUE)>>
    /\ InitTables

NextBulk ==
    \/ AddToCartFrom({"p1"}, BulkQuantities, Weights, {Phone1})
    \/ UpdateCartItemFrom(BulkQuantities)
    \/ UpdateProductFrom({"p1"}, {[is_active |-> FALSE], [is_active |-> TRUE]})

SpecBulk == InitBulk /\ [][NextBulk]_vars

(***************************************************************************)
(* SpecOrder: checkout.  Carts are filled and read and checkouts are       *)
(* placed, one request at a time.                                          *)
(***************************************************************************)
CheckoutItems ==
    {CartItem("p1", 3, "500g"), CartItem("p1", 4, "500g"), CartItem("p2", 1, "1kg"),
     CartItem(UnknownProductId, 1, "500g"), CartItem("p1", 21, "500g")}

NextOrder ==
    \/ AddToCartFrom({"p1"}, {3}, {"500g"}, {Phone1, None})
    \/ AddToCartFrom({"p2"}, {1}, {"500g"}, {Phone1, None})
    \/ GetCart
    \/ PlaceOrderFrom({Phone1, ""}, CheckoutItems)

SpecOrder == Init /\ [][NextOrder]_vars

(***************************************************************************)
(* SpecStatus: the order lifecycle.  Orders are placed, the admin sets     *)
(* their status and customers track them, one request at a time.           *)
(***************************************************************************)
NextStatus ==
    \/ PlaceOrderFrom({Phone1}, {CartItem("p1", 3, "500g"), CartItem("p2", 1, "1kg")})
    \/ UpdateOrderStatus
    \/ TrackOrder

SpecStatus == Init /\ [][NextStatus]_vars

(***************************************************************************)
(* SpecRace: two checkouts served side by side, and tracking.              *)
(***************************************************************************)
RaceItems == {CartItem("p1", 3, "500g"), CartItem("p2", 1, "1kg")}

PlaceOrderRead ==
    \E w \in Workers, cart_items \in SeqsUpTo(RaceItems, MaxLines), now \in Times :
        place_order_read(w, OrderCheckout(Phone1, Address1, cart_items), now)

PlaceOrderInsert == \E w \in Workers : place_order_insert(w)

PlaceOrderClear == \E w \in Workers : place_order_clear(w)

NextRace ==
    \/ PlaceOrderRead
    \/ PlaceOrderInsert
    \/ PlaceOrderClear
    \/ TrackOrder

SpecRace == Init /\ [][NextRace]_vars

(***************************************************************************)
(* SpecOrphan: carts whose products go away.  Products are repriced and    *)
(* deleted while carts hold their lines; the store may refuse the deletion *)
(* of a deleted product's cart lines, which the handler tolerates.         *)
(***************************************************************************)
DeleteProductCartError == \E product_id \in ProductIds : delete_product_cart_error(product_id)

NextOrphan ==
    \/ AddToCartFrom(ProductIds, {1, 2}, {"500g"}, {Phone1, None})
    \/ GetCart
    \/ UpdateProductFrom({"p1"}, {[base_price |-> 100]})
    \/ DeleteProduct
    \/ DeleteProductCartError

SpecOrphan == Init /\ [][NextOrphan]_vars

(***************************************************************************)
(* SpecShop: the customer's side alone.  Every customer-facing handler of  *)
(* the cart and of checkout, one request at a time; nobody restocks.       *)
(***************************************************************************)
ShopItems == {CartItem("p1", 3, "500g"), CartItem("p2", 1, "1kg"), CartItem("p1", 4, "500g")}

NextShop ==
    \/ AddToCartFrom({"p1"}, {1, 3}, {"500g"}, {Phone1, None})
    \/ GetCart
    \/ UpdateCartItemFrom({0, 2})
    \/ RemoveCartItem
    \/ ClearCart
    \/ PlaceOrderFrom({Phone1}, ShopItems)

SpecShop == Init /\ [][NextShop]_vars

(***************************************************************************)
(* SpecSnapshot: orders and what they were made from.  After checkouts the *)
(* admin reprices, renames and deletes products and sets order statuses,   *)
(* and customers fill carts and save addresses, one request at a time.     *)
(***************************************************************************)
SaveUserAddress ==
    \E user_phone \in {Phone1, None}, now \in Times :
        save_user_address(Address2, user_phone, now)

SnapshotStatuses == {[status |-> "delivered"], [status |-> "shipped"]}

UpdateOrderStatusFrom(status_datas) ==
    \E order_id \in 1 .. (MaxOrders + 1), status_data \in status_datas, now \in Times :
        update_order_status_admin(order_id, status_data, now)

\* Checkouts of the given lists of lines.
PlaceOrderOf(phones, cart_item_lists) ==
    \E user_phone \in phones, cart_items \in cart_item_lists, now \in Times :
        place_order(OrderCheckout(user_phone, Address1, cart_items), now)

NextSnapshot ==
    \/ AddToCartFrom({"p1"}, {1}, {"500g"}, {Phone1})
    \/ PlaceOrderOf({Phone1}, {<<CartItem("p1", 3, "500g")>>, <<CartItem("p2", 1, "1kg")>>})
    \/ UpdateProductFrom({"p1"}, {[base_price |-> 100, name |-> "renamed"]})
    \/ DeleteProduct
    \/ SaveUserAddress
    \/ UpdateOrderStatusFrom(SnapshotStatuses)

SpecSnapshot == Init /\ [][NextSnapshot]_vars

(***************************************************************************)
(* SpecOutage: the store fails now and then.  Carts are filled and read,   *)
(* orders are placed and their status is set, one request at a time, and   *)
(* any request may meet a store call that fails.                           *)
(***************************************************************************)
OutageItems == {CartItem("p1", 3, "500g"), CartItem("p2", 1, "1kg")}
OutageLines == {<<ci>> : ci \in OutageItems}

AddToCartReadError ==
    \E item \in OutageItems, user_phone \in {Phone1}, guest_token \in GuestTokens :
        add_to_cart_read_error(item, user_phone, guest_token)

GetCartReadError ==
    \E user_phone \in {Phone1}, guest_id \in {None} : get_cart_read_error(user_phone, guest_id)

UpdateCartItemReadError ==
    \E cart_item_id \in 1 .. MaxCartRows : update_cart_item_read_error(cart_item_id, 1)

PlaceOrderProductsError ==
    \E cart_items \in OutageLines, now \in Times :
        place_order_products_error(OrderCheckout(Phone1, Address1, cart_items), now)

PlaceOrderCountError ==
    \E cart_items \in OutageLines, now \in Times :
        place_order_count_error(OrderCheckout(Phone1, Address1, cart_items), now)

PlaceOrderClearError ==
    \E cart_items \in OutageLines, now \in Times :
        place_order_clear_error(OrderCheckout(Phone1, Address1, cart_items), now)

UpdateOrderStatusReadError ==
    \E order_id \in 1 .. MaxOrders, status_data \in SnapshotStatuses, now \in Times :
        update_order_status_read_error(order_id, status_data, now)

NextOutage ==
    \/ AddToCartFrom({"p1"}, {1}, {"500g"}, {Phone1})
    \/ GetCart
    \/ PlaceOrderOf({Phone1}, OutageLines)
    \/ UpdateOrderStatusFrom(SnapshotStatuses)
    \/ AddToCartReadError
    \/ GetCartReadError
    \/ UpdateCartItemReadError
    \/ PlaceOrderProductsError
    \/ PlaceOrderCountError
    \/ PlaceOrderClearError
    \/ UpdateOrderStatusReadError

SpecOutage == Init /\ [][NextOutage]_vars

(***************************************************************************)
(* SpecGuest: guests' carts.  A guest holds the token /app/login/guest     *)
(* gave them and sends it as the guest-id header; add_to_cart has no such  *)
(* parameter and makes up a cart identifier of its own for every request   *)
(* without a user phone (line 546), which may or may not be the guest's.   *)
(***************************************************************************)
GeneratedTokens == GuestTokens \cup {"guest_0000000b"}

AddToCartAsGuest ==
    \E product_id \in ProductIds, quantity \in {1, 2}, selected_weight \in Weights,
       generated \in GeneratedTokens :
        add_to_cart(CartItem(product_id, quantity, selected_weight), None, generated)

GetCartAsGuest == \E guest_id \in GeneratedTokens : get_cart(None, guest_id)

NextGuest ==
    \/ AddToCartAsGuest
    \/ GetCartAsGuest
    \/ RemoveCartItem

SpecGuest == Init /\ [][NextGuest]_vars

(***************************************************************************)
(* SpecAddRace: two threads adding to one user's cart side by side.        *)
(***************************************************************************)
AddRaceItems == {CartItem("p1", 1, "500g"), CartItem("p1", 2, "500g"),
                 CartItem("p2", 1, "1kg")}

AddToCartReadFrom(items) ==
    \E w \in Workers, item \in items, guest_token \in GuestTokens :
        add_to_cart_read(w, item, Phone1, guest_token)

AddToCartRead == AddToCartReadFrom(AddRaceItems)

AddToCartInsert == \E w \in Workers : add_to_cart_insert(w)

AddToCartUpdate == \E w \in Workers : add_to_cart_update(w)

AddToCartReturn == \E w \in Workers : add_to_cart_return(w)

NextAddRace ==
    \/ AddToCartRead
    \/ AddToCartInsert
    \/ AddToCartUpdate
    \/ AddToCartReturn

SpecAddRace == Init /\ [][NextAddRace]_vars

(***************************************************************************)
(* SpecCheckoutRace: a user adding to the cart while their checkout is     *)
(* being served.                                                           *)
(***************************************************************************)
CheckoutRaceItems == {CartItem("p1", 1, "500g"), CartItem("p2", 1, "1kg")}

PlaceOrderReadFrom(cart_item_lists) ==
    \E w \in Workers, cart_items \in cart_item_lists, now \in Times :
        place_order_read(w, OrderCheckout(Phone1, Address1, cart_items), now)

NextCheckoutRace ==
    \/ AddToCartReadFrom(CheckoutRaceItems)
    \/ AddToCartInsert
    \/ AddToCartUpdate
    \/ AddToCartReturn
    \/ PlaceOrderReadFrom({<<CartItem("p1", 1, "500g")>>})
    \/ PlaceOrderInsert
    \/ PlaceOrderClear

SpecCheckoutRace == Init /\ [][NextCheckoutRace]_vars

(***************************************************************************)
(* SpecUpdateRace: the stock and the details of a product being changed    *)
(* side by side.                                                           *)
(***************************************************************************)
UpdateStockRead ==
    \E w \in Workers, product_id \in {"p1", UnknownProductId},
       stock_data \in {[stock_quantity |-> s] : s \in {1, 2, -1}} :
        update_stock_read(w, product_id, stock_data)

UpdateProductRead ==
    \E w \in Workers, product_id \in {"p1", UnknownProductId},
       product_data \in {[base_price |-> 100], [name |-> "renamed"]} :
        update_product_read(w, product_id, product_data)

UpdateTableDataUpsert == \E w \in Workers : update_table_data_upsert(w)

UpdateTableDataReturn == \E w \in Workers : update_table_data_return(w)

NextUpdateRace ==
    \/ UpdateStockRead
    \/ UpdateProductRead
    \/ UpdateTableDataUpsert
    \/ UpdateTableDataReturn

SpecUpdateRace == Init /\ [][NextUpdateRace]_vars

(***************************************************************************)
(*                               CLAIMS                                    *)
(***************************************************************************)
Orders == Range(mobile_orders)
CartLines == Range(mobile_cart)

RECURSIVE SumItemTotals(_)
SumItemTotals(items) ==
    IF items = <<>> THEN 0 ELSE items[1].item_total + SumItemTotals(Tail(items))

\* total = subtotal + charge, and the charge is 0 from 199 up and 40 below.
PricedRight(subtotal, charge, total) ==
    /\ total = subtotal + charge
    /\ (charge = 0 <=> subtotal >= 199)
    /\ (subtotal < 199 => charge = 40)

OrdersPricedRight ==
    \A o \in Orders : PricedRight(o.subtotal, o.delivery_charge, o.total_amount)

\* C1 as stated: EVERY non-error get_cart response, and every order written
\* by checkout, carries a subtotal, a delivery charge and a total with
\* total = subtotal + charge, charge = 0 iff subtotal >= 199, else 40.
C1_EveryCartResponsePriced ==
    /\ (resp.op = "get_cart" /\ resp.code = 200) =>
          /\ {"subtotal", "delivery_charge", "total"} \subseteq DOMAIN resp
          /\ PricedRight(resp.subtotal, resp.delivery_charge, resp.total)
    /\ OrdersPricedRight

\* C1 amended: every get_cart response that carries a subtotal (every
\* response to a request that presents a cart identifier) and every order
\* written by checkout has total = subtotal + charge, charge = 0 iff
\* subtotal >= 199, else 40.  (Without a cart identifier get_cart answers
\* total 0 and no subtotal or charge.)
C1_PricedResults ==
    /\ (resp.op = "get_cart" /\ resp.code = 200) =>
          /\ "subtotal" \in DOMAIN resp <=> Get(resp, "message") # "No cart ID provided"
          /\ "subtotal" \in DOMAIN resp =>
                PricedRight(resp.subtotal, resp.delivery_charge, resp.total)
    /\ OrdersPricedRight

\* A cart priced below the threshold is shown while an order priced exactly
\* at the threshold is stored.
C1_Witness ==
    /\ resp.op = "get_cart"
    /\ "subtotal" \in DOMAIN resp
    /\ resp.subtotal = 150 /\ resp.delivery_charge = 40 /\ resp.total = 190
    /\ \E o \in Orders : o.subtotal = 199 /\ o.delivery_charge = 0 /\ o.total_amount = 199

\* C2: every get_cart response that carries a subtotal has
\* free_delivery_remaining = max(0, 199 - subtotal): 199 for the empty cart,
\* and 0 at subtotal 199, where the delivery charge is 0 too.
C2_FreeDeliveryRemaining ==
    (resp.op = "get_cart" /\ "subtotal" \in DOMAIN resp) =>
        /\ resp.free_delivery_remaining =
              (IF resp.subtotal >= 199 THEN 0 ELSE 199 - resp.subtotal)
        /\ resp.items = <<>> => resp.subtotal = 0 /\ resp.free_delivery_remaining = 199
        /\ resp.subtotal = 199 => resp.free_delivery_remaining = 0 /\ resp.delivery_charge = 0

\* A cart worth exactly 199 is shown.
C2_Witness ==
    /\ resp.op = "get_cart"
    /\ "subtotal" \in DOMAIN resp
    /\ resp.subtotal = 199
    /\ resp.free_delivery_remaining = 0
    /\ resp.items # <<>>

\* C3: every stored order has total_amount = subtotal + delivery_charge and
\* subtotal = the sum of its lines' item_total, when written and after any
\* sequence of status updates.
C3_OrderTotalsInvariant ==
    \A o \in Orders :
        /\ o.total_amount = o.subtotal + o.delivery_charge
        /\ o.subtotal = SumItemTotals(o.items)

\* A two-line order whose status has been updated twice over.
C3_Witness ==
    \E o \in Orders :
        /\ Len(o.items) = 2
        /\ o.status = "delivered"
        /\ "updated_at" \in DOMAIN o
        /\ o.delivery_charge = 0
        /\ \E o2 \in Orders : o2.status = "cancelled" /\ o2.delivery_charge = 40

(***************************************************************************)
(* The claims about a handler's answer are stated of its outcome for every *)
(* request, in every reachable state: the outcome is the step the handler  *)
(* takes from that state.                                                  *)
(***************************************************************************)
AnyProductIds == ProductIds \cup {UnknownProductId}
AnyQuantities == Quantities \cup BulkQuantities
AnyPhones == {Phone1, None, ""}

CartIdOf(user_phone, guest_token) == IF user_phone \in {None, ""} THEN guest_token ELSE user_phone

LinesIn(cart, cart_id, product_id, selected_weight) ==
    {l \in Range(cart) : /\ l.cart_id = cart_id
                         /\ l.product_id = product_id
                         /\ l.selected_weight = selected_weight}

AddOutcome(product_id, quantity, selected_weight, user_phone, guest_token) ==
    add_to_cart_outcome(mobile_cart, products, nextCartRowId,
                        CartItem(product_id, quantity, selected_weight),
                        user_phone, guest_token)

UniqueTriples ==
    \A i, j \in DOMAIN mobile_cart :
        (/\ mobile_cart[i].cart_id = mobile_cart[j].cart_id
         /\ mobile_cart[i].product_id = mobile_cart[j].product_id
         /\ mobile_cart[i].selected_weight = mobile_cart[j].selected_weight) => i = j

\* C4: a cart never holds two lines for one (cart identifier, product,
\* weight-variant); a successful add for a triple that has a line adds the
\* quantity to that line and inserts nothing, and a successful add for a
\* triple without a line inserts exactly one line of the given quantity.
C4_OneLinePerTriple ==
    /\ UniqueTriples
    /\ \A product_id \in AnyProductIds, quantity \in AnyQuantities,
          selected_weight \in Weights, user_phone \in AnyPhones,
          guest_token \in GuestTokens :
          LET out == AddOutcome(product_id, quantity, selected_weight, user_phone, guest_token)
              cart_id == CartIdOf(user_phone, guest_token)
              before == LinesIn(mobile_cart, cart_id, product_id, selected_weight)
              after == LinesIn(out.mobile_cart, cart_id, product_id, selected_weight)
          IN  out.resp.code = 200 =>
                /\ Len(out.mobile_cart) = Len(mobile_cart) + (IF before = {} THEN 1 ELSE 0)
                /\ \E l \in after :
                      /\ after = {l}
                      /\ \/ before = {} /\ l.quantity = quantity
                         \/ \E b \in before : l.id = b.id /\ l.quantity = b.quantity + quantity

\* An add of 2 was merged into a line of 1 (or 1 into 2), beside another line.
C4_Witness ==
    /\ resp.op = "add_to_cart"
    /\ Get(resp, "message") = "Cart updated"
    /\ resp.quantity = 3
    /\ Len(mobile_cart) = 2
    /\ \E l \in CartLines : l.quantity = 3

\* C5: an add of a valid quantity for an existing product whose quantity, or
\* whose quantity plus that of the matching line, exceeds the product's stock
\* fails with 400 and leaves the cart as it was.
C5_AddInsufficientStock ==
    \A pr \in Range(products), quantity \in AnyQuantities \cap (1 .. 20),
       selected_weight \in Weights, user_phone \in AnyPhones, guest_token \in GuestTokens :
       LET out == AddOutcome(pr.id, quantity, selected_weight, user_phone, guest_token)
           matching == LinesIn(mobile_cart, CartIdOf(user_phone, guest_token), pr.id,
                               selected_weight)
       IN  (\/ quantity > pr.stock_quantity
            \/ \E l \in matching : l.quantity + quantity > pr.stock_quantity) =>
              /\ out.resp.code = 400
              /\ out.mobile_cart = mobile_cart
              /\ ~out.inserted

\* An add was refused because the merged quantity would exceed the stock.
C5_Witness ==
    /\ resp.op = "add_to_cart"
    /\ resp.code = 400
    /\ resp.detail = "Not enough stock available"
    /\ mobile_cart # <<>>

\* C6: an add of a valid quantity for a product that does not exist, or
\* exists but is inactive, fails with 404 and leaves the cart as it was.
C6_AddInactiveNotFound ==
    \A product_id \in AnyProductIds, quantity \in AnyQuantities \cap (1 .. 20),
       selected_weight \in Weights, user_phone \in AnyPhones, guest_token \in GuestTokens :
       LET out == AddOutcome(product_id, quantity, selected_weight, user_phone, guest_token)
       IN  (~\E pr \in Range(products) : pr.id = product_id /\ pr.is_active) =>
              /\ out.resp.code = 404
              /\ out.mobile_cart = mobile_cart

\* C7: every stored cart line has a quantity in 1..20.
C7_LineQuantityInRange == \A l \in CartLines : l.quantity \in 1 .. 20

(***************************************************************************)
(* Checkout.                                                               *)
(***************************************************************************)
AnyCheckoutPhones == {Phone1, ""}
AnyCheckoutLines == SeqsUpTo(CheckoutItems, MaxLines)
ValidCheckoutLines == SeqsUpTo({ci \in CheckoutItems : ci.quantity \in 1 .. 20}, MaxLines)

ProductsWithId(product_id) == {pr \in Range(products) : pr.id = product_id}

\* The line names an existing product and asks at most its stock.
LineFits(ci) == \E pr \in ProductsWithId(ci.product_id) : ci.quantity <= pr.stock_quantity

LineUnknown(ci) == ProductsWithId(ci.product_id) = {}

LineOverStock(ci) == \E pr \in ProductsWithId(ci.product_id) : ci.quantity > pr.stock_quantity

CheckoutOutcome(user_phone, cart_items, now) ==
    place_order_outcome(mobile_orders, mobile_cart, products,
                        OrderCheckout(user_phone, Address1, cart_items), now)

\* C8: a checkout that fails persists nothing.  With no lines it fails with
\* 400 "Cart is empty"; with a line, first or later, whose product is unknown
\* or whose quantity exceeds the stock it fails with 404 or 400; and every
\* failed checkout leaves the orders and every cart as they were.
C8_FailedCheckoutPersistsNothing ==
    \A user_phone \in AnyCheckoutPhones, now \in Times :
       /\ \A cart_items \in AnyCheckoutLines :
             LET out == CheckoutOutcome(user_phone, cart_items, now)
             IN  out.resp.code # 200 =>
                    (out.mobile_orders = mobile_orders /\ out.mobile_cart = mobile_cart)
       /\ \A cart_items \in ValidCheckoutLines :
             LET out == CheckoutOutcome(user_phone, cart_items, now)
             IN  /\ cart_items = <<>> =>
                       (out.resp.code = 400 /\ out.resp.detail = "Cart is empty")
                 /\ (\E i \in DOMAIN cart_items :
                        LineUnknown(cart_items[i]) \/ LineOverStock(cart_items[i])) =>
                       out.resp.code \in {400, 404}

\* A checkout failed on an unknown product while a cart and an order exist.
C8_Witness ==
    /\ resp.op = "place_order"
    /\ resp.code = 404
    /\ mobile_cart # <<>>
    /\ mobile_orders # <<>>

\* C9: checkout accepts a request of valid lines exactly when it has lines
\* and every line asks at most the stock of its product as read in that
\* checkout (quantity = stock is accepted; quantity = stock + 1 is refused
\* with 400 and no order row), and each line of the order it writes is the
\* request's line with unit_price the product's price and
\* item_total = quantity x unit_price.
C9_CheckoutStockCeiling ==
    \A user_phone \in AnyCheckoutPhones, now \in Times, cart_items \in ValidCheckoutLines :
       LET out == CheckoutOutcome(user_phone, cart_items, now)
           written == out.mobile_orders[Len(out.mobile_orders)].items
       IN  /\ out.resp.code = 200 <=>
                (cart_items # <<>> /\ \A i \in DOMAIN cart_items : LineFits(cart_items[i]))
           /\ out.resp.code = 200 =>
                /\ Len(out.mobile_orders) = Len(mobile_orders) + 1
                /\ Len(written) = Len(cart_items)
                /\ \A i \in DOMAIN cart_items :
                      \E pr \in ProductsWithId(cart_items[i].product_id) :
                         /\ written[i].product_id = cart_items[i].product_id
                         /\ written[i].quantity = cart_items[i].quantity
                         /\ written[i].quantity <= pr.stock_quantity
                         /\ written[i].unit_price = pr.base_price
                         /\ written[i].item_total = cart_items[i].quantity * pr.base_price
           /\ (\E i \in DOMAIN cart_items :
                  /\ \E pr \in ProductsWithId(cart_items[i].product_id) :
                        cart_items[i].quantity = pr.stock_quantity + 1
                  /\ \A j \in 1 .. (i - 1) : LineFits(cart_items[j])) =>
                 /\ out.resp.code = 400
                 /\ out.resp.detail = "Insufficient stock"
                 /\ out.mobile_orders = mobile_orders

\* An order holds a line for the whole stock of its product, and a checkout
\* asking one more was just refused.
C9_Witness ==
    /\ resp.op = "place_order"
    /\ resp.code = 400
    /\ resp.detail = "Insufficient stock"
    /\ \E o \in Orders : \E i \in DOMAIN o.items :
          /\ o.items[i].quantity = 3
          /\ o.items[i].item_total = 150
          /\ \E pr \in ProductsWithId(o.items[i].product_id) : pr.stock_quantity = 3

(***************************************************************************)
(* Order status.                                                           *)
(***************************************************************************)
AnyStatusData ==
    {[status |-> st] : st \in Range(valid_statuses) \cup {"shipped", ""}} \cup {<<>>}

SixStatuses ==
    {"placed", "confirmed", "preparing", "out_for_delivery", "delivered", "cancelled"}

\* C10: a status update whose status is missing or not one of the six
\* values fails with 400, one with a valid status for an id no order has
\* fails with 404, and neither changes a stored order.
C10_StatusUpdateFailures ==
    \A order_id \in 1 .. (MaxOrders + 1), status_data \in AnyStatusData, now \in Times :
       LET out == update_order_status_outcome(mobile_orders, order_id, status_data, now)
           valid == "status" \in DOMAIN status_data /\ status_data.status \in SixStatuses
       IN  /\ ~valid => (out.resp.code = 400 /\ out.mobile_orders = mobile_orders)
           /\ (valid /\ ~\E o \in Orders : o.id = order_id) =>
                 (out.resp.code = 404 /\ out.mobile_orders = mobile_orders)

\* A status update for an id no order has was refused while orders exist.
C10_Witness ==
    /\ resp.op = "update_order_status_admin"
    /\ resp.code = 404
    /\ \E o \in Orders : o.status = "confirmed"

(***************************************************************************)
(* Order lifecycle.                                                        *)
(***************************************************************************)
StatusCheckoutLines ==
    SeqsUpTo({CartItem("p1", 3, "500g"), CartItem("p2", 1, "1kg")}, MaxLines)

\* C11: every order is created with status placed, and the status of every
\* stored order is always one of placed, confirmed, preparing,
\* out_for_delivery, delivered, cancelled.
C11_StatusAlwaysOneOfSix ==
    /\ \A o \in Orders : o.status \in SixStatuses
    /\ \A cart_items \in StatusCheckoutLines, now \in Times :
          LET out == CheckoutOutcome(Phone1, cart_items, now)
          IN  out.resp.code = 200 =>
                 /\ Len(out.mobile_orders) = Len(mobile_orders) + 1
                 /\ out.mobile_orders[Len(out.mobile_orders)].status = "placed"

\* An order was just created as placed beside an order that was cancelled.
C11_Witness ==
    /\ resp.op = "place_order"
    /\ resp.code = 200
    /\ \E o \in Orders : o.id = resp.order_id /\ o.status = "placed"
    /\ \E o \in Orders : o.status = "cancelled"

\* C12: the lifecycle is not guarded: for every stored order, whatever its
\* status, setting any of the six statuses succeeds, stores that status on
\* that order and leaves every other order as it was.
C12_LifecycleUnguarded ==
    \A i \in DOMAIN mobile_orders, st \in SixStatuses, now \in Times :
       LET out == update_order_status_outcome(mobile_orders, mobile_orders[i].id,
                                              [status |-> st], now)
       IN  /\ out.resp.code = 200
           /\ Len(out.mobile_orders) = Len(mobile_orders)
           /\ out.mobile_orders[i].status = st
           /\ out.mobile_orders[i].id = mobile_orders[i].id
           /\ \A j \in DOMAIN mobile_orders : j # i => out.mobile_orders[j] = mobile_orders[j]

\* An order that went through a status update was set back to placed while
\* another order is delivered.
C12_Witness ==
    /\ resp.op = "update_order_status_admin"
    /\ resp.code = 200
    /\ resp.status = "placed"
    /\ \E o \in Orders : o.status = "placed" /\ "updated_at" \in DOMAIN o
    /\ \E o \in Orders : o.status = "delivered"

(***************************************************************************)
(* Tracking.                                                               *)
(***************************************************************************)
ForwardSteps == <<"placed", "confirmed", "preparing", "out_for_delivery", "delivered">>

\* The position of a status in the forward order; a cancelled order stands
\* at the first step.
StepReached(status) ==
    IF status = "cancelled" THEN 1
    ELSE CHOOSE k \in DOMAIN ForwardSteps : ForwardSteps[k] = status

\* C13: the tracking timeline of every stored order lists the five steps
\* placed, confirmed, preparing, out_for_delivery, delivered in that order;
\* a step is completed iff the order's status is at or beyond it in the
\* forward order; for a cancelled order no step after placed is completed;
\* and the completed steps form a prefix of the list.
C13_TimelinePrefix ==
    \A o \in Orders :
       LET r == track_order_response(mobile_orders, o.order_number)
           timeline == r.order.tracking_timeline
       IN  /\ r.code = 200
           /\ [k \in DOMAIN timeline |-> timeline[k].step] = ForwardSteps
           /\ \A k \in DOMAIN timeline :
                 timeline[k].completed <=> k <= StepReached(r.order.status)
           /\ r.order.status = "cancelled" =>
                 \A k \in DOMAIN timeline : k > 1 => ~timeline[k].completed
           /\ \A k \in DOMAIN timeline :
                 (k > 1 /\ timeline[k].completed) => timeline[k - 1].completed

\* An order in preparation was tracked: three steps completed, two not.
C13_Witness ==
    /\ resp.op = "track_order"
    /\ resp.code = 200
    /\ resp.order.status = "preparing"
    /\ [k \in DOMAIN resp.order.tracking_timeline |->
           resp.order.tracking_timeline[k].completed] = <<TRUE, TRUE, TRUE, FALSE, FALSE>>
    /\ \E o \in Orders : o.status = "cancelled"

(***************************************************************************)
(* Order numbers.                                                          *)
(***************************************************************************)
DigitValue(c) ==
    CASE c = "0" -> 0 [] c = "1" -> 1 [] c = "2" -> 2 [] c = "3" -> 3 [] c = "4" -> 4
      [] c = "5" -> 5 [] c = "6" -> 6 [] c = "7" -> 7 [] c = "8" -> 8 [] c = "9" -> 9

\* The number a sequence of decimal digits writes.
RECURSIVE DecimalValue(_)
DecimalValue(digits) ==
    IF digits = <<>> THEN 0
    ELSE 10 * DecimalValue(SubSeq(digits, 1, Len(digits) - 1)) + DigitValue(digits[Len(digits)])

\* "VEG" followed by n written in four digits.
IsNthOrderNumber(order_number, n) ==
    /\ Len(order_number) = 7
    /\ SubSeq(order_number, 1, 3) = <<"V", "E", "G">>
    /\ DecimalValue(SubSeq(order_number, 4, 7)) = n

\* C14: with checkouts running one at a time, the n-th order created has the
\* order number "VEG" followed by n in four digits (the first VEG0001), the
\* next checkout to succeed gets the next number, and the order numbers of
\* the stored orders are pairwise distinct.
C14_SequentialOrderNumbers ==
    /\ \A n \in DOMAIN mobile_orders : IsNthOrderNumber(mobile_orders[n].order_number, n)
    /\ mobile_orders # <<>> =>
          mobile_orders[1].order_number = <<"V", "E", "G", "0", "0", "0", "1">>
    /\ \A i, j \in DOMAIN mobile_orders :
          mobile_orders[i].order_number = mobile_orders[j].order_number => i = j
    /\ \A cart_items \in StatusCheckoutLines, now \in Times :
          LET out == CheckoutOutcome(Phone1, cart_items, now)
          IN  out.resp.code = 200 =>
                 /\ IsNthOrderNumber(out.resp.order_number, Len(mobile_orders) + 1)
                 /\ out.mobile_orders[Len(mobile_orders) + 1].order_number
                       = out.resp.order_number

\* The second checkout was answered with the second order number.
C14_Witness ==
    /\ resp.op = "place_order"
    /\ resp.code = 200
    /\ resp.order_number = <<"V", "E", "G", "0", "0", "0", "2">>
    /\ Len(mobile_orders) = 2
    /\ mobile_orders[1].order_number = <<"V", "E", "G", "0", "0", "0", "1">>
    /\ mobile_orders[2].order_number = <<"V", "E", "G", "0", "0", "0", "2">>

(***************************************************************************)
(* Overlapping checkouts.                                                  *)
(***************************************************************************)
\* C15: when checkouts overlap, two stored orders can carry the same order
\* number (both checkouts counted the orders before either inserted), and
\* tracking by a number that several orders carry answers with exactly one
\* of them, the one stored first.
C15_DuplicateNumberTracksOne ==
    \A i, j \in DOMAIN mobile_orders :
       (i < j /\ mobile_orders[i].order_number = mobile_orders[j].order_number) =>
          LET r == track_order_response(mobile_orders, mobile_orders[j].order_number)
              first == CHOOSE k \in DOMAIN mobile_orders :
                          /\ mobile_orders[k].order_number = mobile_orders[j].order_number
                          /\ \A l \in 1 .. (k - 1) :
                                mobile_orders[l].order_number # mobile_orders[j].order_number
          IN  /\ r.code = 200
              /\ r.order.id = mobile_orders[first].id
              /\ r.order.id # mobile_orders[j].id
              /\ r.order.items = mobile_orders[first].items

\* Two different orders are stored under one number, and tracking that
\* number answered with the first.
C15_Witness ==
    /\ Len(mobile_orders) = 2
    /\ mobile_orders[1].order_number = mobile_orders[2].order_number
    /\ mobile_orders[1].id # mobile_orders[2].id
    /\ mobile_orders[1].items # mobile_orders[2].items
    /\ resp.op = "track_order"
    /\ resp.code = 200
    /\ resp.order.order_number = mobile_orders[2].order_number
    /\ resp.order.id = mobile_orders[1].id
    /\ \A w \in Workers : inflight[w] = Idle

(***************************************************************************)
(* Cart maintenance.                                                       *)
(***************************************************************************)
AnyLineIds == 1 .. (MaxCartRows + 1)
AnyLineQuantities == AnyQuantities \cup {-1}
NoCartId == {None, ""}

WithoutLine(cart, cart_item_id) == SelectSeq(cart, LAMBDA l : l.id # cart_item_id)

WithoutCart(cart, cart_id) == SelectSeq(cart, LAMBDA l : l.cart_id # cart_id)

\* C16: a clearCart request with neither a user phone nor a guest id is
\* answered 400 and deletes no cart line.
C16_ClearWithoutIdIs400 ==
    \A user_phone \in NoCartId, guest_id \in NoCartId :
       LET out == clear_cart_outcome(mobile_cart, user_phone, guest_id)
       IN  out.resp.code = 400 /\ out.mobile_cart = mobile_cart

\* C17: updateLineQuantity with quantity <= 0 removes the line and reports
\* success, also when no such line exists; for a stored line of an existing
\* product, a quantity above the product's stock is refused with 400 and the
\* cart stays as it was, and any other quantity (up to the whole stock) is
\* stored on that line exactly, nothing else of the cart changing.
C17_UpdateLineQuantity ==
    \A cart_item_id \in AnyLineIds, quantity \in AnyLineQuantities :
       LET out == update_cart_item_outcome(mobile_cart, products, cart_item_id, quantity)
       IN  /\ quantity <= 0 =>
                /\ out.resp.code = 200
                /\ out.mobile_cart = WithoutLine(mobile_cart, cart_item_id)
           /\ \A i \in DOMAIN mobile_cart, pr \in Range(products) :
                 (/\ quantity > 0
                  /\ mobile_cart[i].id = cart_item_id
                  /\ pr.id = mobile_cart[i].product_id) =>
                    IF quantity > pr.stock_quantity
                    THEN /\ out.resp.code = 400
                         /\ out.mobile_cart = mobile_cart
                    ELSE /\ out.resp.code = 200
                         /\ out.mobile_cart =
                               [mobile_cart EXCEPT ![i] =
                                   [mobile_cart[i] EXCEPT !.quantity = quantity]]

\* A line holds the quantity an update just gave it, the whole stock of its
\* product, beside a line of another quantity.
C17_Witness ==
    /\ resp.op = "update_cart_item"
    /\ Get(resp, "message") = "Cart updated"
    /\ resp.new_quantity = 1
    /\ Len(mobile_cart) = 2
    /\ \E l \in CartLines :
          /\ l.quantity = 1
          /\ \E pr \in Range(products) : pr.id = l.product_id /\ pr.stock_quantity = 1
    /\ \E l \in CartLines : l.quantity > 1

\* C18: removeLine and clearCart succeed whether or not the line or cart
\* exists; applying either a second time leaves the cart table as the first
\* application left it; removeLine removes the line with the given id and
\* no other, and clearCart removes the lines of the given cart identifier
\* and none of another cart.
C18_RemoveAndClearIdempotent ==
    /\ \A cart_item_id \in AnyLineIds :
          LET once == remove_cart_item_outcome(mobile_cart, cart_item_id)
              twice == remove_cart_item_outcome(once.mobile_cart, cart_item_id)
          IN  /\ once.resp.code = 200
              /\ twice.resp.code = 200
              /\ twice.mobile_cart = once.mobile_cart
              /\ once.mobile_cart = WithoutLine(mobile_cart, cart_item_id)
    /\ \A user_phone \in {Phone1, None}, guest_id \in GuestTokens \cup {None} :
          LET cart_id == CartIdOf(user_phone, guest_id)
              once == clear_cart_outcome(mobile_cart, user_phone, guest_id)
              twice == clear_cart_outcome(once.mobile_cart, user_phone, guest_id)
          IN  cart_id # None =>
                 /\ once.resp.code = 200
                 /\ twice.resp.code = 200
                 /\ twice.mobile_cart = once.mobile_cart
                 /\ once.mobile_cart = WithoutCart(mobile_cart, cart_id)

\* A line that is no longer stored was removed again; the line of the other
\* cart is still there.
C18_Witness ==
    /\ resp.op = "remove_cart_item"
    /\ resp.code = 200
    /\ nextCartRowId = 3
    /\ Len(mobile_cart) = 1
    /\ mobile_cart[1].id = 2
    /\ mobile_cart[1].cart_id \in GuestTokens

(***************************************************************************)
(* Orphaned cart lines.                                                    *)
(***************************************************************************)
HasProduct(l) == \E pr \in Range(products) : pr.id = l.product_id

PriceOf(l) == (CHOOSE pr \in Range(products) : pr.id = l.product_id).base_price

RECURSIVE SumLineTotals(_)
SumLineTotals(lines) ==
    IF lines = <<>> THEN 0
    ELSE PriceOf(lines[1]) * lines[1].quantity + SumLineTotals(Tail(lines))

\* C19: getCart for a cart with stored lines answers without error; the
\* snapshot lists exactly the lines whose product still exists, in order,
\* each with unit_price the product's current price and
\* item_total = price x quantity, and subtotal, delivery charge, total and
\* item_count are those of the listed lines alone.
C19_OrphansOmitted ==
    \A user_phone \in {Phone1, None}, guest_id \in GuestTokens :
       LET r == get_cart_response(mobile_cart, products, user_phone, guest_id)
           lines == SelectSeq(mobile_cart,
                              LAMBDA l : l.cart_id = CartIdOf(user_phone, guest_id))
           live == SelectSeq(lines, HasProduct)
       IN  lines # <<>> =>
              /\ r.code = 200
              /\ Len(r.items) = Len(live)
              /\ \A k \in DOMAIN live :
                    /\ r.items[k].cart_item_id = live[k].id
                    /\ r.items[k].quantity = live[k].quantity
                    /\ r.items[k].unit_price = PriceOf(live[k])
                    /\ r.items[k].item_total = PriceOf(live[k]) * live[k].quantity
              /\ r.item_count = Len(live)
              /\ r.subtotal = SumLineTotals(live)
              /\ r.delivery_charge = (IF r.subtotal >= 199 THEN 0 ELSE 40)
              /\ r.total = r.subtotal + r.delivery_charge

\* A cart of two lines, one of a deleted product and one of a repriced
\* product, was read: one item at the new price.
C19_Witness ==
    /\ resp.op = "get_cart"
    /\ resp.code = 200
    /\ "item_count" \in DOMAIN resp
    /\ resp.item_count = 1
    /\ \E l \in CartLines : ~HasProduct(l)
    /\ \E cart_id \in {Phone1} \cup GuestTokens :
          LET lines == SelectSeq(mobile_cart, LAMBDA l : l.cart_id = cart_id)
          IN  /\ Len(lines) = 2
              /\ ~HasProduct(lines[1])
              /\ HasProduct(lines[2])
              /\ resp.items[1].cart_item_id = lines[2].id
              /\ resp.items[1].unit_price = 100
              /\ resp.subtotal = 100 * lines[2].quantity

(***************************************************************************)
(* Stock.                                                                  *)
(***************************************************************************)
AsCartItems(items) ==
    [k \in DOMAIN items |->
        CartItem(items[k].product_id, items[k].quantity, items[k].selected_weight)]

\* The lines of every stored order can be ordered once more.
OrderableAgain ==
    \A o \in Orders, now \in Times :
       CheckoutOutcome(o.user_phone, AsCartItems(o.items), now).resp.code = 200

\* C20: no step of addLine, getCart, updateLineQuantity, removeLine,
\* clearCart or checkout, a successful checkout included, changes any
\* product row, so the stock a checkout ordered can be ordered again in full
\* by a later checkout.
C20_CustomerOpsKeepStock == [](OrderableAgain) /\ [][products' = products]_vars

\* Two stored orders each took the whole stock of the same product.
C20_Witness ==
    /\ resp.op = "place_order"
    /\ resp.code = 200
    /\ Len(mobile_orders) = 2
    /\ \A n \in 1 .. 2 :
          /\ mobile_orders[n].items[1].product_id = "p1"
          /\ mobile_orders[n].items[1].quantity = 3
    /\ \E pr \in Range(products) : pr.id = "p1" /\ pr.stock_quantity = 3

(***************************************************************************)
(* Orders as snapshots.                                                    *)
(***************************************************************************)
\* Everything of an order row but its status and the stamp of its update.
Snapshot(o) == [k \in (DOMAIN o) \ {"status", "updated_at"} |-> o[k]]

\* C21: a stored order is never removed and no step changes its items, unit
\* prices, item totals, subtotal, delivery charge, total, delivery address
\* or any field other than status and updated_at; an order row changes only
\* in a successful setStatus step, which changes that one order.
C21_OrdersAreSnapshots ==
    [][\A i \in DOMAIN mobile_orders :
          /\ i \in DOMAIN mobile_orders'
          /\ Snapshot(mobile_orders'[i]) = Snapshot(mobile_orders[i])
          /\ mobile_orders'[i] # mobile_orders[i] =>
                /\ resp'.op = "update_order_status_admin"
                /\ resp'.code = 200
                /\ \A j \in DOMAIN mobile_orders :
                      j # i => mobile_orders'[j] = mobile_orders[j]]_vars

\* A delivered order keeps the price and name it was written with and the
\* address it was sent to, after its product was repriced and renamed and
\* the customer saved another address; an order of a deleted product is
\* still stored.
C21_Witness ==
    /\ \E o \in Orders :
          /\ o.status = "delivered"
          /\ "updated_at" \in DOMAIN o
          /\ o.items[1].product_id = "p1"
          /\ o.items[1].unit_price = 50
          /\ o.items[1].product_name = "p1"
          /\ o.delivery_address = Address1
          /\ \E pr \in Range(products) :
                pr.id = "p1" /\ pr.base_price = 100 /\ pr.name = "renamed"
    /\ \E o \in Orders :
          /\ o.items[1].product_id = "p2"
          /\ ~\E pr \in Range(products) : pr.id = "p2"
    /\ \E a \in Range(user_addresses) : a.user_phone = Phone1 /\ a.address_line # Address1.address_line

(***************************************************************************)
(* Store failures.                                                         *)
(***************************************************************************)
\* C22: a table read that fails during addLine, updateLineQuantity, checkout
\* or setStatus is answered with a 5xx error and never with 404; getCart
\* whose read of the cart fails is answered with a 5xx error and never with
\* an empty cart; and a checkout whose read of the orders fails writes no
\* order.
C22_ReadFailureIs5xx ==
    /\ \A item \in OutageItems, guest_token \in GuestTokens :
          add_to_cart_read_error_outcome(mobile_cart, nextCartRowId, item, Phone1,
                                         guest_token).resp.code >= 500
    /\ \A cart_item_id \in 1 .. MaxCartRows :
          update_cart_item_read_error_response(products, cart_item_id, 1).code >= 500
    /\ get_cart_read_error_response(products, Phone1, None).code >= 500
    /\ \A cart_items \in OutageLines, now \in Times :
          LET order == OrderCheckout(Phone1, Address1, cart_items)
              counted == place_order_count_error_outcome(mobile_orders, mobile_cart,
                                                         products, order, now)
          IN  /\ place_order_products_error_response(mobile_orders, mobile_cart,
                                                     order, now).code >= 500
              /\ counted.resp.code >= 500
              /\ counted.mobile_orders = mobile_orders
    /\ \A order_id \in 1 .. MaxOrders, status_data \in SnapshotStatuses, now \in Times :
          update_order_status_read_error_response(order_id, status_data, now).code >= 500

\* C27: when the cart-clear step of a checkout fails after the order row
\* was written, the order stays stored and the checkout is answered as a
\* successfully placed order.
C27_ClearFailureNonFatal ==
    \A cart_items \in OutageLines, now \in Times :
       LET order == OrderCheckout(Phone1, Address1, cart_items)
           served == place_order_outcome(mobile_orders, mobile_cart, products, order, now)
           failed == place_order_clear_error_outcome(mobile_orders, mobile_cart, products,
                                                     order, now)
       IN  served.resp.code = 200 =>
              /\ failed.mobile_orders = served.mobile_orders
              /\ failed.resp.code = 200

(***************************************************************************)
(* The cart after checkout.                                                *)
(***************************************************************************)
\* C23: a successful checkout with user phone P leaves no cart line with
\* cart identifier P and leaves the lines of every other cart identifier as
\* they were.
C23_CheckoutClearsOwnCart ==
    \A cart_items \in AnyCheckoutLines, now \in Times :
       LET out == CheckoutOutcome(Phone1, cart_items, now)
       IN  out.resp.code = 200 =>
              /\ \A l \in Range(out.mobile_cart) : l.cart_id # Phone1
              /\ out.mobile_cart = WithoutCart(mobile_cart, Phone1)

\* A checkout with the user's phone succeeded: of the two lines that were
\* added, the guest's is still stored and the user's is not.
C23_Witness ==
    /\ resp.op = "place_order"
    /\ resp.code = 200
    /\ \E o \in Orders : o.id = resp.order_id /\ o.user_phone = Phone1
    /\ nextCartRowId = 3
    /\ Len(mobile_cart) = 1
    /\ mobile_cart[1].cart_id \in GuestTokens

(***************************************************************************)
(* Prices at checkout.                                                     *)
(***************************************************************************)
RepricedLines ==
    {<<CartItem("p1", 3, "500g")>>, <<CartItem("p2", 1, "1kg")>>,
     <<CartItem("p1", 1, "500g"), CartItem("p2", 1, "1kg")>>}

\* C24: a checkout prices each line at the price its product has when the
\* checkout runs, whatever the price was when lines were added to a cart or
\* when earlier orders were written: unit_price is the product's current
\* base price and item_total = unit_price x quantity.
C24_PricedAtCheckout ==
    \A cart_items \in RepricedLines, now \in Times :
       LET out == CheckoutOutcome(Phone1, cart_items, now)
           written == out.mobile_orders[Len(out.mobile_orders)]
       IN  out.resp.code = 200 =>
              /\ Len(written.items) = Len(cart_items)
              /\ \A k \in DOMAIN cart_items :
                    \E pr \in ProductsWithId(cart_items[k].product_id) :
                       /\ written.items[k].unit_price = pr.base_price
                       /\ written.items[k].item_total = pr.base_price * cart_items[k].quantity
              /\ written.subtotal = SumItemTotals(written.items)

\* The product was repriced from 50 to 100 between two checkouts of the
\* same line: the first order holds it at 50, the second at 100.
C24_Witness ==
    /\ resp.op = "place_order"
    /\ resp.code = 200
    /\ resp.total_amount = 300
    /\ Len(mobile_orders) = 2
    /\ mobile_orders[1].items[1].product_id = "p1"
    /\ mobile_orders[1].items[1].unit_price = 50
    /\ mobile_orders[1].items[1].item_total = 150
    /\ mobile_orders[2].items[1].product_id = "p1"
    /\ mobile_orders[2].items[1].quantity = 3
    /\ mobile_orders[2].items[1].unit_price = 100
    /\ mobile_orders[2].items[1].item_total = 300
    /\ nextCartRowId > 1

(***************************************************************************)
(* Several lines of one product.                                           *)
(***************************************************************************)
PairQuantities == {1, 2, 3, 20}

\* C28: checkout checks the stock line by line: a request of two lines of
\* one product, of the same or of different weights, each asking at most
\* the product's stock, is accepted and written as one order of those two
\* lines, whatever the two quantities add up to.
C28_StockCheckedPerLine ==
    \A pr \in Range(products), w1 \in Weights, w2 \in Weights,
       q1 \in PairQuantities, q2 \in PairQuantities,
       user_phone \in AnyCheckoutPhones, now \in Times :
       LET cart_items == <<CartItem(pr.id, q1, w1), CartItem(pr.id, q2, w2)>>
           out == CheckoutOutcome(user_phone, cart_items, now)
           written == out.mobile_orders[Len(out.mobile_orders)]
       IN  (q1 <= pr.stock_quantity /\ q2 <= pr.stock_quantity) =>
              /\ out.resp.code = 200
              /\ Len(out.mobile_orders) = Len(mobile_orders) + 1
              /\ Len(written.items) = 2
              /\ written.items[1].quantity = q1
              /\ written.items[2].quantity = q2
              /\ \A k \in 1 .. 2 : written.items[k].product_id = pr.id

\* An order holds two lines of one product that together take twice its
\* stock.
C28_Witness ==
    /\ resp.op = "place_order"
    /\ resp.code = 200
    /\ \E o \in Orders :
          /\ o.id = resp.order_id
          /\ Len(o.items) = 2
          /\ o.items[1].product_id = o.items[2].product_id
          /\ \E pr \in ProductsWithId(o.items[1].product_id) :
                /\ o.items[1].quantity = pr.stock_quantity
                /\ o.items[2].quantity = pr.stock_quantity
                /\ o.items[1].quantity + o.items[2].quantity > pr.stock_quantity

(***************************************************************************)
(* Guests' carts.                                                          *)
(***************************************************************************)
\* C25: a line added by a guest who presents guest token G is stored under
\* cart identifier G: after a successful add the cart of G holds one line
\* for the (product, weight), a getCart with G lists it, and an add for a
\* (product, weight) that G's cart already holds merges into that line.
C25_GuestLinesKeyedByToken ==
    \A G \in GuestTokens, generated \in GeneratedTokens,
       product_id \in ProductIds, quantity \in {1, 2}, selected_weight \in Weights :
       LET out == add_to_cart_outcome(mobile_cart, products, nextCartRowId,
                                      CartItem(product_id, quantity, selected_weight),
                                      None, generated)
           before == LinesIn(mobile_cart, G, product_id, selected_weight)
           after == LinesIn(out.mobile_cart, G, product_id, selected_weight)
           snapshot == get_cart_response(out.mobile_cart, products, None, G)
       IN  out.resp.code = 200 =>
              /\ Cardinality(after) = 1
              /\ \A l \in after :
                    \E k \in DOMAIN snapshot.items : snapshot.items[k].cart_item_id = l.id
              /\ before # {} =>
                    /\ Len(out.mobile_cart) = Len(mobile_cart)
                    /\ \A l \in after :
                          \E b \in before : l.id = b.id /\ l.quantity = b.quantity + quantity

(***************************************************************************)
(* Requests served side by side.                                           *)
(***************************************************************************)
\* C29: an add writes what it decided from its own read of the cart, not
\* from what the cart holds when it writes: an add that found no line for
\* its (cart, product, weight) inserts a new line whatever lines another
\* add has stored meanwhile, and an add that found a line overwrites its
\* quantity with the quantity it read plus its own, so that interleaved
\* adds leave two lines for one triple or lose an increment.
C29_AddWritesWhatItRead ==
    [][\A w \in Workers :
          /\ (inflight[w].pc = "cart_insert" /\ inflight'[w].pc = "cart_answer") =>
                /\ Len(mobile_cart') = Len(mobile_cart) + 1
                /\ WithoutId(mobile_cart'[Len(mobile_cart')]) = inflight[w].cart_item
                /\ SubSeq(mobile_cart', 1, Len(mobile_cart)) = mobile_cart
          /\ (inflight[w].pc = "cart_update" /\ inflight'[w].pc = "cart_answer") =>
                /\ Len(mobile_cart') = Len(mobile_cart)
                /\ \A i \in DOMAIN mobile_cart' :
                      mobile_cart'[i].id = inflight[w].existing_item.id =>
                         mobile_cart'[i].quantity =
                            inflight[w].existing_item.quantity + inflight[w].item.quantity]_vars

\* Both threads have written and are about to answer "Cart updated": the
\* cart holds two lines for one (cart, product, weight), both threads
\* read the same line, and that line holds less than the quantity read
\* plus the two quantities added.
C29_Witness ==
    /\ \E i, j \in DOMAIN mobile_cart :
          /\ i # j
          /\ mobile_cart[i].cart_id = mobile_cart[j].cart_id
          /\ mobile_cart[i].product_id = mobile_cart[j].product_id
          /\ mobile_cart[i].selected_weight = mobile_cart[j].selected_weight
    /\ \A w \in Workers :
          /\ inflight[w].pc = "cart_answer"
          /\ inflight[w].answer.message = "Cart updated"
    /\ inflight["w1"].existing_item = inflight["w2"].existing_item
    /\ \E i \in DOMAIN mobile_cart :
          /\ mobile_cart[i].id = inflight["w1"].existing_item.id
          /\ mobile_cart[i].quantity <
                inflight["w1"].existing_item.quantity
                   + inflight["w1"].item.quantity + inflight["w2"].item.quantity


\* C26: the cart-clear step of a checkout deletes every line the user's
\* cart holds when it runs, whether or not the line is part of the order
\* the checkout created, and leaves the stored orders as they are: a line
\* that another request added after the checkout had fixed its lines is
\* deleted without being ordered.
C26_ClearDeletesLinesAddedMeanwhile ==
    [][\A w \in Workers :
          (inflight[w].pc = "clear" /\ inflight'[w] = Idle) =>
             /\ \A i \in DOMAIN mobile_cart' :
                   mobile_cart'[i].cart_id # inflight[w].order.user_phone
             /\ \A i \in DOMAIN mobile_cart :
                   mobile_cart[i].cart_id # inflight[w].order.user_phone =>
                      \E j \in DOMAIN mobile_cart' : mobile_cart'[j] = mobile_cart[i]
             /\ mobile_orders' = mobile_orders
             /\ resp' = inflight[w].answer]_vars

\* A checkout has just answered with its order; the other thread has
\* inserted a line for the same user and not yet answered; that line is of
\* a product no order contains, and it is no longer in the cart.
C26_Witness ==
    /\ resp.op = "place_order" /\ resp.code = 200
    /\ \E w \in Workers :
          /\ inflight[w].pc = "cart_answer"
          /\ inflight[w].answer.message = "Added to cart"
          /\ inflight[w].answer.cart_item.cart_id = Phone1
          /\ \A i \in DOMAIN mobile_cart :
                mobile_cart[i].id # inflight[w].answer.cart_item.id
          /\ \A o \in Range(mobile_orders) :
                /\ o.user_phone = Phone1
                /\ \A k \in DOMAIN o.items :
                      o.items[k].product_id # inflight[w].answer.cart_item.product_id


\* C30: update_table_data writes back the whole record as it read it, with
\* only its own fields changed: after its upsert the stored row is the record
\* read overlaid with the new values, so a field that another update changed
\* between the read and the upsert gets its stale value back.
C30_UpsertWritesWholeRecordRead ==
    [][\A w \in Workers :
          (inflight[w].pc = "upsert" /\ inflight'[w].pc = "update_answer") =>
             /\ Len(products') = Len(products)
             /\ \A i \in DOMAIN products' :
                   IF products'[i].id = inflight[w].record.id
                   THEN /\ \A f \in DOMAIN inflight[w].data :
                              products'[i][f] = inflight[w].data[f]
                        /\ \A f \in (DOMAIN inflight[w].record) \ DOMAIN inflight[w].data :
                              products'[i][f] = inflight[w].record[f]
                   ELSE products'[i] = products[i]]_vars

\* A stock update and a price change of one product have both written and
\* are both about to answer 200; both read the same record; the stored
\* product has the new stock but not the new price.
C30_Witness ==
    \E w, v \in Workers :
       /\ inflight[w].pc = "update_answer" /\ inflight[v].pc = "update_answer"
       /\ inflight[w].answer = [op |-> "update_stock", code |-> 200, new_stock |-> 1]
       /\ inflight[v].answer = [op |-> "update_product", code |-> 200]
       /\ inflight[v].data = [base_price |-> 100]
       /\ inflight[w].record = inflight[v].record
       /\ \E i \in DOMAIN products :
             /\ products[i].id = inflight[w].record.id
             /\ products[i].stock_quantity = 1
             /\ products[i].base_price # 100
             /\ products[i].base_price = inflight[w].record.base_price

====
